---- MODULE Spec2Model ----
(***************************************************************************)
(* Model of the catseq Rust backend (catseq-rust/src): the morphism arena  *)
(* (arena.rs), the flat compiler (compiler.rs) and the incremental         *)
(* compiler with its block-copy merge (incremental.rs), the compiler       *)
(* context that owns an arena and an optional incremental compiler         *)
(* (lib.rs), the single-channel step buffer (path.rs) and the program      *)
(* arena (program/arena.rs).                                               *)
(*                                                                         *)
(* Node handles are 0-based as in the code (index into ArenaContext.nodes);*)
(* TLA+ sequences are 1-based, so get(arena, id) reads arena[id + 1].      *)
(* Time is u64 in the code.  The durations drawn here are tiny, so no sum  *)
(* comes near 2^64: overflow (a panic in debug builds, a wrap in release   *)
(* builds) is outside the states explored.                                 *)
(***************************************************************************)
EXTENDS Integers, Sequences, FiniteSets, Bags, TLC

VARIABLES
    nodes,      \* ArenaContext.nodes: Vec<MorphismData>
    result,     \* the last call on the arena or a compiler, and what it returned
    merge_a,    \* first argument of merge_sorted_events (SpecMerge)
    merge_b,    \* second argument of merge_sorted_events (SpecMerge)
    merge_out,  \* what merge_sorted_events returned (SpecMerge)
    incremental,\* CompilerContext.incremental: Option<IncrementalCompiler>
    program,    \* a ProgramArena: nodes, values, var_names
    morphism_path \* a MorphismPath: channel_id, steps, total_duration

vars == <<nodes, result, merge_a, merge_b, merge_out, incremental, program, morphism_path>>

(***************************************************************************)
(* Bounds and input alphabets                                              *)
(***************************************************************************)
MaxNodes == 3       \* nodes in the arena
MaxAtomic == 2      \* Atomic nodes among them
MaxMergeLen == 3    \* length of each argument of merge_sorted_events
MaxHits == 2        \* cache hits after which a session compiles no more
MaxValues == 3      \* values, and nodes, in the program arena
MaxLeaves == 2      \* nodes in an arena before a balanced builder is called
MaxList == 5        \* length of the list given to a balanced builder
MaxChained == 2     \* length of the list given to chain_sequence among other calls
MaxSteps == 3       \* steps in the path
MaxOther == 2       \* steps in the path given to extend

ChannelIds == {0, 1}
Durations == {0, 1}
Opcodes == {1, 2}
Blobs == {<<7>>}

MergeTimes == {0, 1, 2}

(***************************************************************************)
(* Small helpers on sequences                                              *)
(***************************************************************************)
Range(s) == {s[i] : i \in 1..Len(s)}

Max(a, b) == IF a >= b THEN a ELSE b

\* insert x into the ascending list s, before the first element > x
RECURSIVE InsertAsc(_, _)
InsertAsc(x, s) ==
    IF s = <<>> THEN <<x>>
    ELSE IF x < Head(s) THEN <<x>> \o s
    ELSE <<Head(s)>> \o InsertAsc(x, Tail(s))

\* Vec<u32>::sort_unstable: the ascending permutation (equal integers are
\* indistinguishable, so stability is immaterial)
RECURSIVE sort_unstable(_)
sort_unstable(s) ==
    IF s = <<>> THEN <<>>
    ELSE InsertAsc(s[Len(s)], sort_unstable(SubSeq(s, 1, Len(s) - 1)))

\* Vec::dedup: drops every element equal to its predecessor
RECURSIVE dedup(_)
dedup(s) ==
    IF Len(s) <= 1 THEN s
    ELSE IF s[1] = s[2] THEN dedup(Tail(s))
    ELSE <<s[1]>> \o dedup(Tail(s))

(***************************************************************************)
(* arena.rs                                                                *)
(***************************************************************************)
AtomicPayload(opcode, data) == [opcode |-> opcode, data |-> data]

AtomicNode(channel_id, dur, payload) ==
    [kind |-> "Atomic", channel_id |-> channel_id, duration |-> dur,
     payload |-> payload]

SequentialNode(lhs, rhs, dur, chans) ==
    [kind |-> "Sequential", lhs |-> lhs, rhs |-> rhs, duration |-> dur,
     channels |-> chans]

ParallelNode(lhs, rhs, dur, chans) ==
    [kind |-> "Parallel", lhs |-> lhs, rhs |-> rhs, duration |-> dur,
     channels |-> chans]

get(arena, id) == arena[id + 1]

duration(node) == node.duration

channels(node) ==
    IF node.kind = "Atomic" THEN <<node.channel_id>> ELSE node.channels

channels_vec(node) ==
    IF node.kind = "Atomic" THEN <<node.channel_id>> ELSE node.channels

\* two-pointer scan of two sorted slices, i and j 0-based as in the code
RECURSIVE has_intersection_from(_, _, _, _)
has_intersection_from(a, b, i, j) ==
    IF i < Len(a) /\ j < Len(b)
    THEN IF a[i + 1] = b[j + 1] THEN TRUE
         ELSE IF a[i + 1] < b[j + 1] THEN has_intersection_from(a, b, i + 1, j)
         ELSE has_intersection_from(a, b, i, j + 1)
    ELSE FALSE

\* a scan that starts at the second element of each slice
has_intersection_skips_first(a, b) == has_intersection_from(a, b, 1, 1)

has_intersection(a, b) == has_intersection_from(a, b, 0, 0)

\* an atomic that puts the new node in front of the stored ones
atomic_pushes_front(arena, channel_id, dur, opcode, data) ==
    <<AtomicNode(channel_id, dur, AtomicPayload(opcode, data))>> \o arena

\* ArenaContext::atomic: the arena after the push; the handle returned is
\* the length before it
atomic(arena, channel_id, dur, opcode, data) ==
    Append(arena, AtomicNode(channel_id, dur, AtomicPayload(opcode, data)))

\* the union without the dedup pass
sequential_channels_no_dedup(lhs_data, rhs_data) ==
    sort_unstable(channels_vec(lhs_data) \o channels(rhs_data))

sequential_channels(lhs_data, rhs_data) ==
    dedup(sort_unstable(channels_vec(lhs_data) \o channels(rhs_data)))

\* a sequential that takes the max of the durations, as parallel does
sequential_max_duration(arena, lhs, rhs) ==
    LET lhs_data == get(arena, lhs)
        rhs_data == get(arena, rhs)
    IN  Append(arena,
               SequentialNode(lhs, rhs,
                              Max(duration(lhs_data), duration(rhs_data)),
                              sequential_channels(lhs_data, rhs_data)))

\* a sequential whose duration is that of its lhs alone
sequential_lhs_duration(arena, lhs, rhs) ==
    LET lhs_data == get(arena, lhs)
        rhs_data == get(arena, rhs)
    IN  Append(arena,
               SequentialNode(lhs, rhs,
                              duration(lhs_data),
                              sequential_channels(lhs_data, rhs_data)))

\* a sequential that stores the new node's own handle as its rhs
sequential_rhs_is_new_handle(arena, lhs, rhs) ==
    LET lhs_data == get(arena, lhs)
        rhs_data == get(arena, rhs)
    IN  Append(arena,
               SequentialNode(lhs, Len(arena),
                              duration(lhs_data) + duration(rhs_data),
                              sequential_channels(lhs_data, rhs_data)))

\* ArenaContext::sequential: the arena after the push; the handle returned
\* is the length before it
sequential(arena, lhs, rhs) ==
    LET lhs_data == get(arena, lhs)
        rhs_data == get(arena, rhs)
    IN  Append(arena,
               SequentialNode(lhs, rhs,
                              duration(lhs_data) + duration(rhs_data),
                              sequential_channels(lhs_data, rhs_data)))

ParallelErr == <<"Parallel", "composition", "requires", "disjoint", "channels">>

\* channels joined without the sort
parallel_channels_unsorted(lhs_data, rhs_data) ==
    channels_vec(lhs_data) \o channels(rhs_data)

parallel_channels(lhs_data, rhs_data) ==
    sort_unstable(channels_vec(lhs_data) \o channels(rhs_data))

\* a parallel that builds and pushes the node before it looks for a conflict
parallel_push_first(arena, lhs, rhs) ==
    LET lhs_data == get(arena, lhs)
        rhs_data == get(arena, rhs)
        pushed == Append(arena,
                         ParallelNode(lhs, rhs,
                                      Max(duration(lhs_data), duration(rhs_data)),
                                      parallel_channels(lhs_data, rhs_data)))
    IN  IF has_intersection(channels(lhs_data), channels(rhs_data))
        THEN [nodes |-> pushed, status |-> "err", value |-> ParallelErr]
        ELSE [nodes |-> pushed, status |-> "ok", value |-> Len(arena)]

\* ArenaContext::parallel: the arena after the call and the Result returned
parallel(arena, lhs, rhs) ==
    LET lhs_data == get(arena, lhs)
        rhs_data == get(arena, rhs)
    IN  IF has_intersection(channels(lhs_data), channels(rhs_data))
        THEN [nodes |-> arena, status |-> "err", value |-> ParallelErr]
        ELSE [nodes |-> Append(arena,
                               ParallelNode(lhs, rhs,
                                            Max(duration(lhs_data), duration(rhs_data)),
                                            parallel_channels(lhs_data, rhs_data))),
              status |-> "ok", value |-> Len(arena)]

\* a walk that counts every node it pops, not only the Atomic ones
RECURSIVE leaf_count_loop_counts_nodes(_, _, _)
leaf_count_loop_counts_nodes(arena, stack, count) ==
    IF stack = <<>> THEN count
    ELSE LET node_id == stack[Len(stack)]
             rest == SubSeq(stack, 1, Len(stack) - 1)
             node == get(arena, node_id)
         IN  IF node.kind = "Atomic"
             THEN leaf_count_loop_counts_nodes(arena, rest, count + 1)
             ELSE leaf_count_loop_counts_nodes(arena,
                      rest \o <<node.rhs, node.lhs>>, count + 1)

\* ArenaContext::leaf_count: explicit stack, the top is the last element
RECURSIVE leaf_count_loop(_, _, _)
leaf_count_loop(arena, stack, count) ==
    IF stack = <<>> THEN count
    ELSE LET node_id == stack[Len(stack)]
             rest == SubSeq(stack, 1, Len(stack) - 1)
             node == get(arena, node_id)
         IN  IF node.kind = "Atomic"
             THEN leaf_count_loop(arena, rest, count + 1)
             ELSE leaf_count_loop(arena, rest \o <<node.rhs, node.lhs>>, count)

leaf_count(arena, root) == leaf_count_loop(arena, <<root>>, 0)

\* ArenaContext::max_depth: explicit stack of (node, depth) pairs
RECURSIVE max_depth_loop(_, _, _)
max_depth_loop(arena, stack, max_depth) ==
    IF stack = <<>> THEN max_depth
    ELSE LET node_id == stack[Len(stack)][1]
             depth == stack[Len(stack)][2]
             rest == SubSeq(stack, 1, Len(stack) - 1)
             node == get(arena, node_id)
         IN  IF node.kind = "Atomic"
             THEN max_depth_loop(arena, rest, Max(max_depth, depth))
             ELSE max_depth_loop(arena,
                      rest \o <<<<node.rhs, depth + 1>>, <<node.lhs, depth + 1>>>>,
                      Max(max_depth, depth))

max_depth(arena, root) == max_depth_loop(arena, <<<<root, 1>>>>, 0)

\* ArenaContext::compose_sequence, called by CompilerContext::compose_sequence:
\* repeated pairwise reduction, each round combining (n[0], n[1]),
\* (n[2], n[3]), .. with sequential and carrying an odd tail; nothing for an
\* empty list, the element itself for a singleton
RECURSIVE compose_round(_, _, _, _)
compose_round(arena, current, i, next) ==
    IF i < Len(current)
    THEN IF i + 1 < Len(current)
         THEN compose_round(sequential(arena, current[i + 1], current[i + 2]),
                            current, i + 2, Append(next, Len(arena)))
         ELSE compose_round(arena, current, i + 1, Append(next, current[i + 1]))
    ELSE [arena |-> arena, next |-> next]

RECURSIVE compose_rounds(_, _)
compose_rounds(arena, current) ==
    IF Len(current) > 1
    THEN LET r == compose_round(arena, current, 0, <<>>)
         IN  compose_rounds(r.arena, r.next)
    ELSE [arena |-> arena, is_some |-> TRUE, value |-> current[1]]

compose_sequence(arena, list) ==
    IF list = <<>> THEN [arena |-> arena, is_some |-> FALSE]
    ELSE compose_rounds(arena, list)

(***************************************************************************)
(* compiler.rs                                                             *)
(***************************************************************************)
FlatEvent(time, channel_id, opcode, data) ==
    [time |-> time, channel_id |-> channel_id, opcode |-> opcode, data |-> data]

\* insert e after every element whose time is <= e.time
RECURSIVE InsertByTime(_, _)
InsertByTime(e, s) ==
    IF s = <<>> THEN <<e>>
    ELSE IF e.time < Head(s).time THEN <<e>> \o s
    ELSE <<Head(s)>> \o InsertByTime(e, Tail(s))

\* Vec::sort_by_key(|e| e.time): a stable sort
RECURSIVE sort_by_key_time(_)
sort_by_key_time(s) ==
    IF s = <<>> THEN <<>>
    ELSE InsertByTime(s[Len(s)], sort_by_key_time(SubSeq(s, 1, Len(s) - 1)))

\* a walk that starts the rhs of a Sequential after the whole node, not
\* after its lhs
RECURSIVE compile_loop_rhs_after_node(_, _, _)
compile_loop_rhs_after_node(arena, stack, events) ==
    IF stack = <<>> THEN events
    ELSE LET top == stack[Len(stack)]
             rest == SubSeq(stack, 1, Len(stack) - 1)
             node_id == top[1]
             start_time == top[2]
             node == get(arena, node_id)
         IN  CASE node.kind = "Atomic" ->
                    compile_loop_rhs_after_node(arena, rest,
                        Append(events,
                               FlatEvent(start_time, node.channel_id,
                                         node.payload.opcode, node.payload.data)))
               [] node.kind = "Sequential" ->
                    LET lhs_duration == duration(node)
                    IN  compile_loop_rhs_after_node(arena,
                            rest \o <<<<node.rhs, start_time + lhs_duration>>,
                                      <<node.lhs, start_time>>>>,
                            events)
               [] node.kind = "Parallel" ->
                    compile_loop_rhs_after_node(arena,
                        rest \o <<<<node.rhs, start_time>>,
                                  <<node.lhs, start_time>>>>,
                        events)

\* a walk that offsets the rhs of a Parallel as if it were a Sequential
RECURSIVE compile_loop_parallel_offsets(_, _, _)
compile_loop_parallel_offsets(arena, stack, events) ==
    IF stack = <<>> THEN events
    ELSE LET top == stack[Len(stack)]
             rest == SubSeq(stack, 1, Len(stack) - 1)
             node_id == top[1]
             start_time == top[2]
             node == get(arena, node_id)
         IN  CASE node.kind = "Atomic" ->
                    compile_loop_parallel_offsets(arena, rest,
                        Append(events,
                               FlatEvent(start_time, node.channel_id,
                                         node.payload.opcode, node.payload.data)))
               [] node.kind = "Sequential" ->
                    LET lhs_duration == duration(get(arena, node.lhs))
                    IN  compile_loop_parallel_offsets(arena,
                            rest \o <<<<node.rhs, start_time + lhs_duration>>,
                                      <<node.lhs, start_time>>>>,
                            events)
               [] node.kind = "Parallel" ->
                    compile_loop_parallel_offsets(arena,
                        rest \o <<<<node.rhs,
                                    start_time + duration(get(arena, node.lhs))>>,
                                  <<node.lhs, start_time>>>>,
                        events)

\* a walk that pushes the lhs before the rhs, so that the rhs is popped and
\* emitted first
RECURSIVE compile_loop_lhs_pushed_first(_, _, _)
compile_loop_lhs_pushed_first(arena, stack, events) ==
    IF stack = <<>> THEN events
    ELSE LET top == stack[Len(stack)]
             rest == SubSeq(stack, 1, Len(stack) - 1)
             node_id == top[1]
             start_time == top[2]
             node == get(arena, node_id)
         IN  CASE node.kind = "Atomic" ->
                    compile_loop_lhs_pushed_first(arena, rest,
                        Append(events,
                               FlatEvent(start_time, node.channel_id,
                                         node.payload.opcode, node.payload.data)))
               [] node.kind = "Sequential" ->
                    LET lhs_duration == duration(get(arena, node.lhs))
                    IN  compile_loop_lhs_pushed_first(arena,
                            rest \o <<<<node.lhs, start_time>>,
                                      <<node.rhs, start_time + lhs_duration>>>>,
                            events)
               [] node.kind = "Parallel" ->
                    compile_loop_lhs_pushed_first(arena,
                        rest \o <<<<node.lhs, start_time>>,
                                  <<node.rhs, start_time>>>>,
                        events)

\* the while-let loop of compile: stack of <<node_id, start_time>>
RECURSIVE compile_loop(_, _, _)
compile_loop(arena, stack, events) ==
    IF stack = <<>> THEN events
    ELSE LET top == stack[Len(stack)]
             rest == SubSeq(stack, 1, Len(stack) - 1)
             node_id == top[1]
             start_time == top[2]
             node == get(arena, node_id)
         IN  CASE node.kind = "Atomic" ->
                    compile_loop(arena, rest,
                        Append(events,
                               FlatEvent(start_time, node.channel_id,
                                         node.payload.opcode, node.payload.data)))
               [] node.kind = "Sequential" ->
                    LET lhs_duration == duration(get(arena, node.lhs))
                    IN  compile_loop(arena,
                            rest \o <<<<node.rhs, start_time + lhs_duration>>,
                                      <<node.lhs, start_time>>>>,
                            events)
               [] node.kind = "Parallel" ->
                    compile_loop(arena,
                        rest \o <<<<node.rhs, start_time>>,
                                  <<node.lhs, start_time>>>>,
                        events)

compile(arena, root) == sort_by_key_time(compile_loop(arena, <<<<root, 0>>>>, <<>>))

\* (event.channel_id >> 16) as u16
board_id_of(event) == (event.channel_id \div 65536) % 65536

\* a grouping that puts each event in front of its bucket
RECURSIVE group_loop_inserts_front(_, _, _)
group_loop_inserts_front(events, i, grouped) ==
    IF i > Len(events) THEN grouped
    ELSE LET event == events[i]
             board_id == board_id_of(event)
             bucket == IF board_id \in DOMAIN grouped THEN grouped[board_id]
                       ELSE <<>>
         IN  group_loop_inserts_front(events, i + 1,
                 [b \in (DOMAIN grouped) \cup {board_id} |->
                     IF b = board_id THEN <<event>> \o bucket ELSE grouped[b]])

\* the for loop of compile_by_board: grouped.entry(board_id)
\* .or_insert_with(Vec::new).push(event)
RECURSIVE group_loop(_, _, _)
group_loop(events, i, grouped) ==
    IF i > Len(events) THEN grouped
    ELSE LET event == events[i]
             board_id == board_id_of(event)
             bucket == IF board_id \in DOMAIN grouped THEN grouped[board_id]
                       ELSE <<>>
         IN  group_loop(events, i + 1,
                 [b \in (DOMAIN grouped) \cup {board_id} |->
                     IF b = board_id THEN Append(bucket, event) ELSE grouped[b]])

\* compile_by_board: a map from board id to the events of the board
compile_by_board(arena, root) ==
    group_loop(compile(arena, root), 1, [b \in {} |-> <<>>])

(***************************************************************************)
(* incremental.rs                                                          *)
(***************************************************************************)
\* the standard two-pointer loop and the two trailing extend_from_slice
RECURSIVE merge_loop(_, _, _, _, _)
merge_loop(a, b, i, j, acc) ==
    IF i < Len(a) /\ j < Len(b)
    THEN IF a[i + 1].time <= b[j + 1].time
         THEN merge_loop(a, b, i + 1, j, Append(acc, a[i + 1]))
         ELSE merge_loop(a, b, i, j + 1, Append(acc, b[j + 1]))
    ELSE acc \o SubSeq(a, i + 1, Len(a)) \o SubSeq(b, j + 1, Len(b))

\* a merge whose first block copy compares the last times of both lists
merge_sorted_events_compares_last(a, b) ==
    IF a = <<>> THEN b
    ELSE IF b = <<>> THEN a
    ELSE IF a[Len(a)].time <= b[Len(b)].time THEN a \o b
    ELSE IF b[Len(b)].time <= a[1].time THEN b \o a
    ELSE merge_loop(a, b, 0, 0, <<>>)

merge_sorted_events(a, b) ==
    IF a = <<>> THEN b
    ELSE IF b = <<>> THEN a
    ELSE IF a[Len(a)].time <= b[1].time THEN a \o b
    ELSE IF b[Len(b)].time <= a[1].time THEN b \o a
    ELSE merge_loop(a, b, 0, 0, <<>>)

IncrementalCompilerNew ==
    [cache |-> <<>>, cache_hits |-> 0, cache_misses |-> 0]

\* HashMap::insert
cache_insert(cache, node_id, events) ==
    [k \in (DOMAIN cache) \cup {node_id} |->
        IF k = node_id THEN events ELSE cache[k]]

shift_events(events, lhs_duration) ==
    [k \in 1..Len(events) |->
        FlatEvent(events[k].time + lhs_duration, events[k].channel_id,
                  events[k].opcode, events[k].data)]

\* a compile_node whose Sequential case offsets the lhs events and copies
\* the rhs events as they are
RECURSIVE compile_node_offsets_lhs(_, _, _)
compile_node_offsets_lhs(c, arena, node_id) ==
    IF node_id \in DOMAIN c.cache
    THEN [inc |-> [c EXCEPT !.cache_hits = @ + 1], events |-> c.cache[node_id]]
    ELSE
      LET c0 == [c EXCEPT !.cache_misses = @ + 1]
          node == get(arena, node_id)
          done(c1, events) ==
              [inc |-> [c1 EXCEPT !.cache = cache_insert(@, node_id, events)],
               events |-> events]
      IN  CASE node.kind = "Atomic" ->
                 done(c0, <<FlatEvent(0, node.channel_id, node.payload.opcode,
                                      node.payload.data)>>)
            [] node.kind = "Sequential" ->
                 LET l == compile_node_offsets_lhs(c0, arena, node.lhs)
                     r == compile_node_offsets_lhs(l.inc, arena, node.rhs)
                     lhs_duration == duration(get(arena, node.lhs))
                 IN  done(r.inc, shift_events(l.events, lhs_duration) \o r.events)
            [] node.kind = "Parallel" ->
                 LET l == compile_node_offsets_lhs(c0, arena, node.lhs)
                     r == compile_node_offsets_lhs(l.inc, arena, node.rhs)
                 IN  done(r.inc, merge_sorted_events(l.events, r.events))

\* a compile_node that returns the event of an Atomic node without
\* inserting it in the cache
RECURSIVE compile_node_atomic_not_cached(_, _, _)
compile_node_atomic_not_cached(c, arena, node_id) ==
    IF node_id \in DOMAIN c.cache
    THEN [inc |-> [c EXCEPT !.cache_hits = @ + 1], events |-> c.cache[node_id]]
    ELSE
      LET c0 == [c EXCEPT !.cache_misses = @ + 1]
          node == get(arena, node_id)
          done(c1, events) ==
              [inc |-> [c1 EXCEPT !.cache = cache_insert(@, node_id, events)],
               events |-> events]
      IN  CASE node.kind = "Atomic" ->
                 [inc |-> c0,
                  events |-> <<FlatEvent(0, node.channel_id, node.payload.opcode,
                                         node.payload.data)>>]
            [] node.kind = "Sequential" ->
                 LET l == compile_node_atomic_not_cached(c0, arena, node.lhs)
                     r == compile_node_atomic_not_cached(l.inc, arena, node.rhs)
                     lhs_duration == duration(get(arena, node.lhs))
                 IN  done(r.inc, l.events \o shift_events(r.events, lhs_duration))
            [] node.kind = "Parallel" ->
                 LET l == compile_node_atomic_not_cached(c0, arena, node.lhs)
                     r == compile_node_atomic_not_cached(l.inc, arena, node.rhs)
                 IN  done(r.inc, merge_sorted_events(l.events, r.events))

\* a compile_node whose Sequential case leaves the offset rhs events in the
\* cache entry of the rhs, as if it had shifted the shared list in place
RECURSIVE compile_node_shifts_in_place(_, _, _)
compile_node_shifts_in_place(c, arena, node_id) ==
    IF node_id \in DOMAIN c.cache
    THEN [inc |-> [c EXCEPT !.cache_hits = @ + 1], events |-> c.cache[node_id]]
    ELSE
      LET c0 == [c EXCEPT !.cache_misses = @ + 1]
          node == get(arena, node_id)
          done(c1, events) ==
              [inc |-> [c1 EXCEPT !.cache = cache_insert(@, node_id, events)],
               events |-> events]
      IN  CASE node.kind = "Atomic" ->
                 done(c0, <<FlatEvent(0, node.channel_id, node.payload.opcode,
                                      node.payload.data)>>)
            [] node.kind = "Sequential" ->
                 LET l == compile_node_shifts_in_place(c0, arena, node.lhs)
                     r == compile_node_shifts_in_place(l.inc, arena, node.rhs)
                     lhs_duration == duration(get(arena, node.lhs))
                     shifted == shift_events(r.events, lhs_duration)
                 IN  done([r.inc EXCEPT !.cache = cache_insert(@, node.rhs, shifted)],
                          l.events \o shifted)
            [] node.kind = "Parallel" ->
                 LET l == compile_node_shifts_in_place(c0, arena, node.lhs)
                     r == compile_node_shifts_in_place(l.inc, arena, node.rhs)
                 IN  done(r.inc, merge_sorted_events(l.events, r.events))

\* IncrementalCompiler::compile_node: the compiler after the call and the
\* event list (local time) it returns
RECURSIVE compile_node(_, _, _)
compile_node(c, arena, node_id) ==
    IF node_id \in DOMAIN c.cache
    THEN [inc |-> [c EXCEPT !.cache_hits = @ + 1], events |-> c.cache[node_id]]
    ELSE
      LET c0 == [c EXCEPT !.cache_misses = @ + 1]
          node == get(arena, node_id)
          done(c1, events) ==
              [inc |-> [c1 EXCEPT !.cache = cache_insert(@, node_id, events)],
               events |-> events]
      IN  CASE node.kind = "Atomic" ->
                 done(c0, <<FlatEvent(0, node.channel_id, node.payload.opcode,
                                      node.payload.data)>>)
            [] node.kind = "Sequential" ->
                 LET l == compile_node(c0, arena, node.lhs)
                     r == compile_node(l.inc, arena, node.rhs)
                     lhs_duration == duration(get(arena, node.lhs))
                 IN  done(r.inc, l.events \o shift_events(r.events, lhs_duration))
            [] node.kind = "Parallel" ->
                 LET l == compile_node(c0, arena, node.lhs)
                     r == compile_node(l.inc, arena, node.rhs)
                 IN  done(r.inc, merge_sorted_events(l.events, r.events))

\* IncrementalCompiler::compile
inc_compile(c, arena, root) == compile_node(c, arena, root)

(***************************************************************************)
(* lib.rs: CompilerContext.incremental and the calls that read or set it   *)
(***************************************************************************)
None == [is_some |-> FALSE]

Some(v) == [is_some |-> TRUE, value |-> v]

\* IncrementalCompiler::stats; hit_rate is kept as <<numerator, denominator>>
stats(c) ==
    [cached_nodes |-> Cardinality(DOMAIN c.cache),
     cache_hits |-> c.cache_hits,
     cache_misses |-> c.cache_misses,
     hit_rate |-> IF c.cache_hits + c.cache_misses > 0
                  THEN <<c.cache_hits, c.cache_hits + c.cache_misses>>
                  ELSE <<0, 1>>]

\* a clear that empties the cache and keeps the counters
incremental_clear_keeps_counters(c) ==
    [cache |-> <<>>, cache_hits |-> c.cache_hits, cache_misses |-> c.cache_misses]

\* IncrementalCompiler::clear
incremental_clear(c) ==
    [cache |-> <<>>, cache_hits |-> 0, cache_misses |-> 0]

\* CompilerContext::enable_incremental: the slot after the call
enable_incremental(slot) == Some(IncrementalCompilerNew)

\* CompilerContext::disable_incremental: the slot after the call
disable_incremental(slot) == None

\* CompilerContext::get_incremental_stats: the Option returned
get_incremental_stats(slot) ==
    IF slot.is_some
    THEN LET st == stats(slot.value)
         IN  Some(<<st.cached_nodes, st.cache_hits, st.cache_misses, st.hit_rate>>)
    ELSE None

\* CompilerContext::clear_incremental_cache: the slot after the call
clear_incremental_cache(slot) ==
    IF slot.is_some THEN Some(incremental_clear(slot.value)) ELSE slot

\* the map over the events that hands them to the caller as tuples
event_tuples(events) ==
    [k \in 1..Len(events) |->
        <<events[k].time, events[k].channel_id, events[k].opcode, events[k].data>>]

\* a compile_graph that creates the incremental compiler on first use
compile_graph_creates_compiler(slot, arena, node_id) ==
    LET r == inc_compile(IF slot.is_some THEN slot.value ELSE IncrementalCompilerNew,
                         arena, node_id)
    IN  [incremental |-> Some(r.inc), value |-> event_tuples(r.events)]

\* CompilerContext::compile_graph: the slot after the call and the list
\* returned
compile_graph(slot, arena, node_id) ==
    IF slot.is_some
    THEN LET r == inc_compile(slot.value, arena, node_id)
         IN  [incremental |-> Some(r.inc), value |-> event_tuples(r.events)]
    ELSE [incremental |-> slot, value |-> event_tuples(compile(arena, node_id))]

\* Node::compile: the same two branches on the context the Node belongs to
node_compile(slot, arena, id) ==
    IF slot.is_some
    THEN LET r == inc_compile(slot.value, arena, id)
         IN  [incremental |-> Some(r.inc), value |-> event_tuples(r.events)]
    ELSE [incremental |-> slot, value |-> event_tuples(compile(arena, id))]

(***************************************************************************)
(* path.rs                                                                 *)
(***************************************************************************)
Step(dur, opcode, payload) ==
    [duration |-> dur, opcode |-> opcode, payload |-> payload]

\* MorphismPath::new (with_capacity differs in the reserved capacity only)
MorphismPathNew(channel_id) ==
    [channel_id |-> channel_id, steps |-> <<>>, total_duration |-> 0]

\* MorphismPath::append: the path after the call
path_append(p, dur, opcode, payload) ==
    [p EXCEPT !.steps = Append(@, Step(dur, opcode, payload)),
              !.total_duration = @ + dur]

\* format!("Channel mismatch: {} vs {}", ..)
ChannelMismatch(a, b) == [msg |-> "Channel mismatch", self |-> a, other |-> b]

\* an extend that copies the steps before it compares the channel ids
path_extend_copies_first(p, other) ==
    LET extended == [p EXCEPT !.steps = @ \o other.steps,
                              !.total_duration = @ + other.total_duration]
    IN  IF p.channel_id # other.channel_id
        THEN [path |-> extended, status |-> "err",
              value |-> ChannelMismatch(p.channel_id, other.channel_id)]
        ELSE [path |-> extended, status |-> "ok", value |-> <<>>]

\* MorphismPath::extend: the path after the call and the PyResult returned
path_extend(p, other) ==
    IF p.channel_id # other.channel_id
    THEN [path |-> p, status |-> "err",
          value |-> ChannelMismatch(p.channel_id, other.channel_id)]
    ELSE [path |-> [p EXCEPT !.steps = @ \o other.steps,
                             !.total_duration = @ + other.total_duration],
          status |-> "ok", value |-> <<>>]

\* MorphismPath::identity: a new path holding one wait step, or none when
\* the duration is 0
path_identity(channel_id, dur, opcode) ==
    IF dur > 0
    THEN [channel_id |-> channel_id, steps |-> <<Step(dur, opcode, <<>>)>>,
          total_duration |-> dur]
    ELSE MorphismPathNew(channel_id)

\* an align that also appends when the path already ends at the target
path_align_appends_on_equal(p, target_duration, opcode) ==
    IF p.total_duration <= target_duration
    THEN [p EXCEPT !.steps = Append(@, Step(target_duration - p.total_duration,
                                            opcode, <<>>)),
                   !.total_duration = target_duration]
    ELSE p

\* an align that appends the wait step and leaves total_duration as it was
path_align_keeps_total(p, target_duration, opcode) ==
    IF p.total_duration < target_duration
    THEN [p EXCEPT !.steps = Append(@, Step(target_duration - p.total_duration,
                                            opcode, <<>>))]
    ELSE p

\* MorphismPath::align: the path after the call
path_align(p, target_duration, opcode) ==
    IF p.total_duration < target_duration
    THEN LET diff == target_duration - p.total_duration
         IN  [p EXCEPT !.steps = Append(@, Step(diff, opcode, <<>>)),
                       !.total_duration = target_duration]
    ELSE p

(***************************************************************************)
(* program/values.rs, program/nodes.rs, program/arena.rs                   *)
(***************************************************************************)
\* TypeHint::from_str
TypeHint_from_str(str) ==
    CASE str \in {"int32", "i32"} -> Some("Int32")
      [] str \in {"int64", "i64"} -> Some("Int64")
      [] str \in {"float32", "f32"} -> Some("Float32")
      [] str \in {"float64", "f64"} -> Some("Float64")
      [] str = "bool" -> Some("Bool")
      [] OTHER -> None

unwrap_or(opt, default) == IF opt.is_some THEN opt.value ELSE default

\* ValueData::int
ValueData_int(value) == [kind |-> "Literal", value |-> value, is_float |-> FALSE]

ValueData_Variable(name, type_hint) ==
    [kind |-> "Variable", name |-> name, type_hint |-> type_hint]

NodeData_Identity == [kind |-> "Identity"]

NodeData_Chain(left, right) == [kind |-> "Chain", left |-> left, right |-> right]

\* ProgramArena::new (with_capacity differs in the reserved capacity only)
ProgramArenaNew ==
    [nodes |-> <<>>, values |-> <<>>, var_names |-> [n \in {} |-> 0]]

\* ProgramArena::clear
program_clear(a) == ProgramArenaNew

node_count(a) == Len(a.nodes)

value_count(a) == Len(a.values)

var_count(a) == Cardinality(DOMAIN a.var_names)

\* ProgramArena::literal: the arena after the call and the ValueId returned
literal(a, value) ==
    [arena |-> [a EXCEPT !.values = Append(@, ValueData_int(value))],
     value |-> Len(a.values)]

\* a variable that pushes a new value for a name it already knows
variable_always_pushes(a, name, type_hint) ==
    LET hint == unwrap_or(TypeHint_from_str(type_hint), "Int32")
        id == Len(a.values)
    IN  [arena |-> [a EXCEPT
                      !.values = Append(@, ValueData_Variable(name, hint)),
                      !.var_names = [n \in (DOMAIN @) \cup {name} |->
                                        IF n = name THEN id ELSE @[n]]],
         value |-> id]

\* ProgramArena::variable: the arena after the call and the ValueId returned
variable(a, name, type_hint) ==
    IF name \in DOMAIN a.var_names
    THEN [arena |-> a, value |-> a.var_names[name]]
    ELSE LET hint == unwrap_or(TypeHint_from_str(type_hint), "Int32")
             id == Len(a.values)
         IN  [arena |-> [a EXCEPT
                           !.values = Append(@, ValueData_Variable(name, hint)),
                           !.var_names = [n \in (DOMAIN @) \cup {name} |->
                                             IF n = name THEN id ELSE @[n]]],
              value |-> id]

\* ProgramArena::identity: the arena after the call and the NodeId returned
identity(a) ==
    [arena |-> [a EXCEPT !.nodes = Append(@, NodeData_Identity)],
     value |-> Len(a.nodes)]

NodeData_Lift(morphism_ref, params) ==
    [kind |-> "Lift", morphism_ref |-> morphism_ref, params |-> params]

NodeData_Delay(dur, max_hint) ==
    [kind |-> "Delay", duration |-> dur, max_hint |-> max_hint]

NodeData_Set(target, value) == [kind |-> "Set", target |-> target, value |-> value]

NodeData_Loop(count, body) == [kind |-> "Loop", count |-> count, body |-> body]

NodeData_Match(subject, cases, default) ==
    [kind |-> "Match", subject |-> subject, cases |-> cases, default |-> default]

NodeData_Apply(func, args) == [kind |-> "Apply", func |-> func, args |-> args]

NodeData_FuncDef(name, params, body) ==
    [kind |-> "FuncDef", name |-> name, params |-> params, body |-> body]

NodeData_Measure(target, source) ==
    [kind |-> "Measure", target |-> target, source |-> source]

\* every node constructor: let id = self.nodes.len(); self.nodes.push(..); id
push_node(a, data) ==
    [arena |-> [a EXCEPT !.nodes = Append(@, data)], value |-> Len(a.nodes)]

lift(a, morphism_ref, params) == push_node(a, NodeData_Lift(morphism_ref, params))

delay(a, dur, max_hint) == push_node(a, NodeData_Delay(dur, max_hint))

set_var(a, target, value) == push_node(a, NodeData_Set(target, value))

loop_node(a, count, body) == push_node(a, NodeData_Loop(count, body))

match_node(a, subject, cases, default) ==
    push_node(a, NodeData_Match(subject, cases, default))

apply(a, func, args) == push_node(a, NodeData_Apply(func, args))

func_def(a, name, params, body) ==
    push_node(a, NodeData_FuncDef(name, params, body))

measure(a, target, source) == push_node(a, NodeData_Measure(target, source))

\* ProgramArena::chain: the arena after the call and the NodeId returned
chain(a, left, right) ==
    [arena |-> [a EXCEPT !.nodes = Append(@, NodeData_Chain(left, right))],
     value |-> Len(a.nodes)]

\* a round that folds the whole list from the left into one node
RECURSIVE chain_round_folds_left(_, _, _, _)
chain_round_folds_left(a, current, i, next) ==
    IF i < Len(current)
    THEN IF next = <<>>
         THEN chain_round_folds_left(a, current, i + 1, <<current[i + 1]>>)
         ELSE LET combined == chain(a, next[1], current[i + 1])
              IN  chain_round_folds_left(combined.arena, current, i + 1,
                                         <<combined.value>>)
    ELSE [arena |-> a, next |-> next]

\* a round that does not carry an odd tail to the next round
RECURSIVE chain_round_drops_tail(_, _, _, _)
chain_round_drops_tail(a, current, i, next) ==
    IF i < Len(current)
    THEN IF i + 1 < Len(current)
         THEN LET combined == chain(a, current[i + 1], current[i + 2])
              IN  chain_round_drops_tail(combined.arena, current, i + 2,
                                         Append(next, combined.value))
         ELSE chain_round_drops_tail(a, current, i + 1, next)
    ELSE [arena |-> a, next |-> next]

\* the inner while loop of chain_sequence: one round over current, from
\* index i (0-based), collecting next
RECURSIVE chain_round(_, _, _, _)
chain_round(a, current, i, next) ==
    IF i < Len(current)
    THEN IF i + 1 < Len(current)
         THEN LET combined == chain(a, current[i + 1], current[i + 2])
              IN  chain_round(combined.arena, current, i + 2,
                              Append(next, combined.value))
         ELSE chain_round(a, current, i + 1, Append(next, current[i + 1]))
    ELSE [arena |-> a, next |-> next]

\* the outer while loop of chain_sequence
RECURSIVE chain_rounds(_, _)
chain_rounds(a, current) ==
    IF Len(current) > 1
    THEN LET r == chain_round(a, current, 0, <<>>)
         IN  chain_rounds(r.arena, r.next)
    ELSE [arena |-> a, value |-> Some(current[1])]

\* ProgramArena::chain_sequence: the arena after the call and the Option
\* returned
chain_sequence(a, list) ==
    IF list = <<>> THEN [arena |-> a, value |-> None]
    ELSE IF Len(list) = 1 THEN [arena |-> a, value |-> Some(list[1])]
    ELSE chain_rounds(a, list)

(***************************************************************************)
(* The state machine: one arena and the calls a client makes on it.  Each  *)
(* call leaves its name and what it returned in result; a compile call     *)
(* also leaves the root it was asked for.  The constructors take the node  *)
(* count the exploration stops at as their first parameter: Spec stops at  *)
(* MaxNodes, SpecWide one node later.                                      *)
(***************************************************************************)
Ret(call, args, status, value) ==
    [call |-> call, args |-> args, status |-> status, value |-> value]

\* handles a caller may pass: every valid one and the first invalid one
Handles == 0..Len(nodes)

Valid(id) == id < Len(nodes)

NoMerge == [called |-> FALSE, events |-> <<>>]

Init ==
    /\ nodes = <<>>
    /\ result = Ret("new", <<>>, "ok", <<>>)
    /\ merge_a = <<>>
    /\ merge_b = <<>>
    /\ merge_out = NoMerge
    /\ incremental = None
    /\ program = ProgramArenaNew
    /\ morphism_path = MorphismPathNew(0)

Atomic(cap, channel_id, dur, opcode, data) ==
    /\ Len(nodes) < cap
    /\ Cardinality({i \in 1..Len(nodes) : nodes[i].kind = "Atomic"}) < MaxAtomic
    /\ nodes' = atomic(nodes, channel_id, dur, opcode, data)
    /\ result' = Ret("atomic", <<>>, "ok", Len(nodes))
    /\ UNCHANGED <<merge_a, merge_b, merge_out, incremental, program, morphism_path>>

\* self.nodes[lhs as usize] panics on a handle that is out of range
Sequential(cap, lhs, rhs) ==
    /\ IF ~Valid(lhs) \/ ~Valid(rhs)
       THEN /\ nodes' = nodes
            /\ result' = Ret("sequential", <<>>, "panic", <<>>)
       ELSE /\ Len(nodes) < cap
            /\ nodes' = sequential(nodes, lhs, rhs)
            /\ result' = Ret("sequential", <<>>, "ok", Len(nodes))
    /\ UNCHANGED <<merge_a, merge_b, merge_out, incremental, program, morphism_path>>

Parallel(cap, lhs, rhs) ==
    /\ IF ~Valid(lhs) \/ ~Valid(rhs)
       THEN /\ nodes' = nodes
            /\ result' = Ret("parallel", <<>>, "panic", <<>>)
       ELSE LET r == parallel(nodes, lhs, rhs)
            IN  /\ Len(r.nodes) <= cap
                /\ nodes' = r.nodes
                /\ result' = Ret("parallel", <<>>, r.status, r.value)
    /\ UNCHANGED <<merge_a, merge_b, merge_out, incremental, program, morphism_path>>

\* compiler::compile(&arena, root)
Compile(root) ==
    /\ IF ~Valid(root)
       THEN result' = Ret("compile", <<root>>, "panic", <<>>)
       ELSE result' = Ret("compile", <<root>>, "ok", compile(nodes, root))
    /\ UNCHANGED <<nodes, merge_a, merge_b, merge_out, incremental, program, morphism_path>>

\* IncrementalCompiler::new().compile(&arena, root): a compiler with an
\* empty cache, used for this one call
NewIncrementalCompile(root) ==
    /\ IF ~Valid(root)
       THEN result' = Ret("inc_compile", <<root>>, "panic", <<>>)
       ELSE result' = Ret("inc_compile", <<root>>, "ok",
                          inc_compile(IncrementalCompilerNew, nodes, root).events)
    /\ UNCHANGED <<nodes, merge_a, merge_b, merge_out, incremental, program, morphism_path>>

Next ==
    \/ \E ch \in ChannelIds, d \in Durations, op \in Opcodes, data \in Blobs :
          Atomic(MaxNodes, ch, d, op, data)
    \/ \E lhs \in Handles, rhs \in Handles : Sequential(MaxNodes, lhs, rhs)
    \/ \E lhs \in Handles, rhs \in Handles : Parallel(MaxNodes, lhs, rhs)
    \/ \E root \in Handles : Compile(root)
    \/ \E root \in Handles : NewIncrementalCompile(root)

Spec == Init /\ [][Next]_vars

\* the same calls on arenas of up to MaxNodes + 1 nodes
NextWide ==
    \/ \E ch \in ChannelIds, d \in Durations, op \in Opcodes, data \in Blobs :
          Atomic(MaxNodes + 1, ch, d, op, data)
    \/ \E lhs \in Handles, rhs \in Handles : Sequential(MaxNodes + 1, lhs, rhs)
    \/ \E lhs \in Handles, rhs \in Handles : Parallel(MaxNodes + 1, lhs, rhs)
    \/ \E root \in Handles : Compile(root)
    \/ \E root \in Handles : NewIncrementalCompile(root)

SpecWide == Init /\ [][NextWide]_vars

(***************************************************************************)
(* The arena with every call that reads it and the one that empties it:    *)
(* the constructors, the metadata accessors, the walks, both compilers and *)
(* CompilerContext::clear.                                                 *)
(***************************************************************************)
\* self.arena.borrow_mut().nodes.clear()
clear(arena) == <<>>

\* an accessor or a walk: arena.get(id) panics on a handle out of range
Read(call, id, value) ==
    /\ IF ~Valid(id)
       THEN result' = Ret(call, <<id>>, "panic", <<>>)
       ELSE result' = Ret(call, <<id>>, "ok", value)
    /\ UNCHANGED <<nodes, merge_a, merge_b, merge_out, incremental, program, morphism_path>>

GetDuration(node_id) ==
    Read("get_duration", node_id, duration(get(nodes, node_id)))

GetChannels(node_id) ==
    Read("get_channels", node_id, channels_vec(get(nodes, node_id)))

LeafCount(id) == Read("leaf_count", id, leaf_count(nodes, id))

MaxDepth(id) == Read("max_depth", id, max_depth(nodes, id))

Clear ==
    /\ nodes' = clear(nodes)
    /\ result' = Ret("clear", <<>>, "ok", <<>>)
    /\ UNCHANGED <<merge_a, merge_b, merge_out, incremental, program, morphism_path>>

NextArena ==
    \/ \E ch \in ChannelIds, d \in Durations : Atomic(MaxNodes, ch, d, 1, <<7>>)
    \/ \E lhs \in Handles, rhs \in Handles : Sequential(MaxNodes, lhs, rhs)
    \/ \E lhs \in Handles, rhs \in Handles : Parallel(MaxNodes, lhs, rhs)
    \/ \E root \in Handles : Compile(root)
    \/ \E root \in Handles : NewIncrementalCompile(root)
    \/ \E node_id \in Handles : GetDuration(node_id)
    \/ \E node_id \in Handles : GetChannels(node_id)
    \/ \E id \in Handles : LeafCount(id)
    \/ \E id \in Handles : MaxDepth(id)
    \/ Clear

SpecArena == Init /\ [][NextArena]_vars

(***************************************************************************)
(* Three morphisms composed in sequence in both groupings: the four calls  *)
(* sequential(a, b), sequential(ab, c), sequential(b, c), sequential(a, bc)*)
(* on an arena built by the constructors.  The two roots are returned.     *)
(***************************************************************************)
SequentialBothWays(a, b, c) ==
    LET ab       == Len(nodes)
        with_ab  == sequential(nodes, a, b)
        left     == Len(with_ab)
        with_l   == sequential(with_ab, ab, c)
        bc       == Len(with_l)
        with_bc  == sequential(with_l, b, c)
        right    == Len(with_bc)
    IN  /\ Len(nodes) <= MaxNodes
        /\ nodes' = sequential(with_bc, a, bc)
        /\ result' = Ret("sequential_both_ways", <<a, b, c>>, "ok", <<left, right>>)
        /\ UNCHANGED <<merge_a, merge_b, merge_out, incremental, program, morphism_path>>

ValidHandles == 0..(Len(nodes) - 1)

\* Two morphisms composed in parallel in both orders: parallel(a, b), then
\* parallel(b, a).  Both Results are returned.
ParallelBothWays(a, b) ==
    LET ab == parallel(nodes, a, b)
        ba == parallel(ab.nodes, b, a)
    IN  /\ Len(nodes) <= MaxNodes
        /\ nodes' = ba.nodes
        /\ result' = Ret("parallel_both_ways", <<a, b>>,
                         IF ab.status = "ok" /\ ba.status = "ok" THEN "ok" ELSE "err",
                         <<ab.value, ba.value>>)
        /\ UNCHANGED <<merge_a, merge_b, merge_out, incremental, program, morphism_path>>

\* the arena is built first; composing both ways ends the run
Building == result.call \notin {"sequential_both_ways", "parallel_both_ways"}

NextLaws ==
    \/ Building /\ \E ch \in ChannelIds, d \in Durations :
                      Atomic(MaxNodes, ch, d, 1, <<7>>)
    \/ Building /\ \E lhs \in Handles, rhs \in Handles :
                      Sequential(MaxNodes, lhs, rhs)
    \/ Building /\ \E lhs \in Handles, rhs \in Handles :
                      Parallel(MaxNodes, lhs, rhs)
    \/ Building /\ \E a \in ValidHandles, b \in ValidHandles, c \in ValidHandles :
                      SequentialBothWays(a, b, c)
    \/ Building /\ \E a \in ValidHandles, b \in ValidHandles :
                      ParallelBothWays(a, b)

SpecLaws == Init /\ [][NextLaws]_vars

(***************************************************************************)
(* Channels on two boards: the board id is the high 16 bits of the         *)
(* channel id.                                                             *)
(***************************************************************************)
BoardChannels == {0, 65536}

\* compiler::compile_by_board(&arena, root)
CompileByBoard(root) ==
    /\ IF ~Valid(root)
       THEN result' = Ret("compile_by_board", <<root>>, "panic", <<>>)
       ELSE result' = Ret("compile_by_board", <<root>>, "ok",
                          compile_by_board(nodes, root))
    /\ UNCHANGED <<nodes, merge_a, merge_b, merge_out, incremental, program, morphism_path>>

NextBoard ==
    \/ \E ch \in BoardChannels : Atomic(MaxNodes + 1, ch, 1, 1, <<7>>)
    \/ \E lhs \in Handles, rhs \in Handles : Sequential(MaxNodes + 1, lhs, rhs)
    \/ \E lhs \in Handles, rhs \in Handles : Parallel(MaxNodes + 1, lhs, rhs)
    \/ \E root \in Handles : CompileByBoard(root)

SpecBoard == Init /\ [][NextBoard]_vars

(***************************************************************************)
(* The compiler context: the arena calls above and the calls on the        *)
(* incremental slot.  A handle that is out of range is a contract          *)
(* violation (arena.get panics), so the compile calls here take the        *)
(* handles the arena has returned.                                         *)
(***************************************************************************)
EnableIncremental ==
    /\ incremental' = enable_incremental(incremental)
    /\ result' = Ret("enable_incremental", <<>>, "ok", <<>>)
    /\ UNCHANGED <<nodes, merge_a, merge_b, merge_out, program, morphism_path>>

DisableIncremental ==
    /\ incremental' = disable_incremental(incremental)
    /\ result' = Ret("disable_incremental", <<>>, "ok", <<>>)
    /\ UNCHANGED <<nodes, merge_a, merge_b, merge_out, program, morphism_path>>

ClearIncrementalCache ==
    /\ incremental' = clear_incremental_cache(incremental)
    /\ result' = Ret("clear_incremental_cache", <<>>, "ok", <<>>)
    /\ UNCHANGED <<nodes, merge_a, merge_b, merge_out, program, morphism_path>>

GetIncrementalStats ==
    /\ result' = Ret("get_incremental_stats", <<>>, "ok",
                     get_incremental_stats(incremental))
    /\ UNCHANGED <<nodes, merge_a, merge_b, merge_out, incremental, program,
                   morphism_path>>

CompileGraph(node_id) ==
    /\ Valid(node_id)
    /\ incremental.is_some => incremental.value.cache_hits < MaxHits
    /\ LET r == compile_graph(incremental, nodes, node_id)
       IN  /\ incremental' = r.incremental
           /\ result' = Ret("compile_graph", <<node_id>>, "ok", r.value)
    /\ UNCHANGED <<nodes, merge_a, merge_b, merge_out, program, morphism_path>>

NodeCompile(id) ==
    /\ Valid(id)
    /\ incremental.is_some => incremental.value.cache_hits < MaxHits
    /\ LET r == node_compile(incremental, nodes, id)
       IN  /\ incremental' = r.incremental
           /\ result' = Ret("Node.compile", <<id>>, "ok", r.value)
    /\ UNCHANGED <<nodes, merge_a, merge_b, merge_out, program, morphism_path>>

NextCtx ==
    \/ \E ch \in ChannelIds : Atomic(MaxNodes, ch, 1, 1, <<7>>)
    \/ \E lhs \in Handles, rhs \in Handles : Sequential(MaxNodes, lhs, rhs)
    \/ \E lhs \in Handles, rhs \in Handles : Parallel(MaxNodes, lhs, rhs)
    \/ EnableIncremental
    \/ DisableIncremental
    \/ ClearIncrementalCache
    \/ GetIncrementalStats
    \/ \E node_id \in Handles : CompileGraph(node_id)
    \/ \E id \in Handles : NodeCompile(id)

SpecCtx == Init /\ [][NextCtx]_vars

(***************************************************************************)
(* A CompilerContext that is also reset: the calls of SpecCtx that build   *)
(* and compile, with CompilerContext::clear in between.                    *)
(***************************************************************************)
NextReset ==
    \/ \E ch \in ChannelIds : Atomic(MaxNodes, ch, 1, 1, <<7>>)
    \/ \E lhs \in Handles, rhs \in Handles : Sequential(MaxNodes, lhs, rhs)
    \/ \E lhs \in Handles, rhs \in Handles : Parallel(MaxNodes, lhs, rhs)
    \/ EnableIncremental
    \/ DisableIncremental
    \/ ClearIncrementalCache
    \/ \E node_id \in Handles : CompileGraph(node_id)
    \/ Clear

SpecReset == Init /\ [][NextReset]_vars

(***************************************************************************)
(* The program arena's value table: the calls that create values, with a   *)
(* node constructor in between.  The arena starts as ProgramArena::new()   *)
(* and the first observation is value_count() on it.                       *)
(***************************************************************************)
VarNames == {"x", "y"}

\* type hint strings a caller passes: three that parse and one that does not
HintStrings == {"int32", "i64", "bool", "unknown"}

InitValues ==
    /\ nodes = <<>>
    /\ result = Ret("value_count", <<>>, "ok", value_count(ProgramArenaNew))
    /\ merge_a = <<>>
    /\ merge_b = <<>>
    /\ merge_out = NoMerge
    /\ incremental = None
    /\ program = ProgramArenaNew
    /\ morphism_path = MorphismPathNew(0)

Literal(value) ==
    /\ value_count(program) < MaxValues
    /\ LET r == literal(program, value)
       IN  /\ program' = r.arena
           /\ result' = Ret("literal", <<>>, "ok", r.value)
    /\ UNCHANGED <<nodes, merge_a, merge_b, merge_out, incremental, morphism_path>>

Variable(name, type_hint) ==
    /\ name \in DOMAIN program.var_names \/ value_count(program) < MaxValues
    /\ LET r == variable(program, name, type_hint)
       IN  /\ program' = r.arena
           /\ result' = Ret("variable", <<name, type_hint>>, "ok", r.value)
    /\ UNCHANGED <<nodes, merge_a, merge_b, merge_out, incremental, morphism_path>>

Identity(cap) ==
    /\ node_count(program) < cap
    /\ LET r == identity(program)
       IN  /\ program' = r.arena
           /\ result' = Ret("identity", <<>>, "ok", r.value)
    /\ UNCHANGED <<nodes, merge_a, merge_b, merge_out, incremental, morphism_path>>

ValueCount ==
    /\ result' = Ret("value_count", <<>>, "ok", value_count(program))
    /\ UNCHANGED <<nodes, merge_a, merge_b, merge_out, incremental, program,
                   morphism_path>>

VarCount ==
    /\ result' = Ret("var_count", <<>>, "ok", var_count(program))
    /\ UNCHANGED <<nodes, merge_a, merge_b, merge_out, incremental, program,
                   morphism_path>>

NextValues ==
    \/ Literal(5)
    \/ \E name \in VarNames, type_hint \in HintStrings : Variable(name, type_hint)
    \/ Identity(MaxValues)
    \/ ValueCount
    \/ VarCount

SpecValues == InitValues /\ [][NextValues]_vars

(***************************************************************************)
(* The balanced builders.  A behaviour builds a few nodes in one of the    *)
(* two arenas (they are separate objects and share no state) and then      *)
(* gives a list of their handles to the arena's builder.                   *)
(***************************************************************************)
\* the lists of at most n elements of S
ListsOver(S, n) == UNION {[1..k -> S] : k \in 0..n}

Chain(cap, left, right) ==
    /\ node_count(program) < cap
    /\ LET r == chain(program, left, right)
       IN  /\ program' = r.arena
           /\ result' = Ret("chain", <<>>, "ok", r.value)
    /\ UNCHANGED <<nodes, merge_a, merge_b, merge_out, incremental, morphism_path>>

ChainSequence(list) ==
    /\ LET r == chain_sequence(program, list)
       IN  /\ program' = r.arena
           /\ result' = Ret("chain_sequence", <<list>>, "ok", r.value)
    /\ UNCHANGED <<nodes, merge_a, merge_b, merge_out, incremental, morphism_path>>

ComposeSequence(list) ==
    /\ LET r == compose_sequence(nodes, list)
       IN  /\ nodes' = r.arena
           /\ result' = Ret("compose_sequence", <<list>>, "ok",
                            IF r.is_some THEN Some(r.value) ELSE None)
    /\ UNCHANGED <<merge_a, merge_b, merge_out, incremental, program, morphism_path>>

NextChain ==
    \/ nodes = <<>> /\ Identity(MaxLeaves)
    \/ nodes = <<>> /\ \E left \in 0..(node_count(program) - 1),
                         right \in 0..(node_count(program) - 1) :
                            Chain(MaxLeaves, left, right)
    \/ /\ nodes = <<>>
       /\ node_count(program) <= MaxLeaves
       /\ \E list \in ListsOver(0..(node_count(program) - 1), MaxList) :
             ChainSequence(list)
    \/ program = ProgramArenaNew
         /\ \E ch \in ChannelIds : Atomic(MaxLeaves, ch, 1, 1, <<7>>)
    \/ /\ program = ProgramArenaNew
       /\ Len(nodes) <= MaxLeaves
       /\ \E list \in ListsOver(0..(Len(nodes) - 1), MaxList) :
             ComposeSequence(list)

SpecChain == Init /\ [][NextChain]_vars

(***************************************************************************)
(* The program arena's node constructors.  None of them looks at its       *)
(* arguments, so a caller may pass any u32 as a node handle: the handles   *)
(* tried here are those of the nodes in the arena and the first one that   *)
(* is not (the handle the call itself returns).  Value handles are not     *)
(* children; they are 0 throughout.                                        *)
(***************************************************************************)
NodeArgs == 0..node_count(program)

\* cases: HashMap<i64, NodeId> with no case or the single case 1
MatchCases == {[k \in {} |-> 0]} \cup {[k \in {1} |-> n] : n \in NodeArgs}

OptionalNodes == {None} \cup {Some(n) : n \in NodeArgs}

\* a constructor call that appends one node
PushNode(call, r) ==
    /\ node_count(program) < MaxLeaves
    /\ program' = r.arena
    /\ result' = Ret(call, <<>>, "ok", r.value)
    /\ UNCHANGED <<nodes, merge_a, merge_b, merge_out, incremental, morphism_path>>

Lift == PushNode("lift", lift(program, 0, [n \in {} |-> 0]))

Delay == PushNode("delay", delay(program, 0, None))

SetVar == PushNode("set_var", set_var(program, 0, 0))

Measure == PushNode("measure", measure(program, 0, 0))

LoopNode(body) == PushNode("loop_", loop_node(program, 0, body))

MatchNode(cases, default) ==
    PushNode("match_", match_node(program, 0, cases, default))

Apply(func) == PushNode("apply", apply(program, func, <<>>))

FuncDef(body) == PushNode("func_def", func_def(program, "f", <<>>, body))

ChainNodes(list) ==
    /\ node_count(program) + Len(list) <= MaxLeaves + 1
    /\ LET r == chain_sequence(program, list)
       IN  /\ program' = r.arena
           /\ result' = Ret("chain_sequence", <<list>>, "ok", r.value)
    /\ UNCHANGED <<nodes, merge_a, merge_b, merge_out, incremental, morphism_path>>

NextNodes ==
    \/ Identity(MaxLeaves)
    \/ Lift
    \/ Delay
    \/ SetVar
    \/ Measure
    \/ \E left \in NodeArgs, right \in NodeArgs : Chain(MaxLeaves, left, right)
    \/ \E body \in NodeArgs : LoopNode(body)
    \/ \E cases \in MatchCases, default \in OptionalNodes : MatchNode(cases, default)
    \/ \E func \in NodeArgs : Apply(func)
    \/ \E body \in NodeArgs : FuncDef(body)
    \/ \E list \in ListsOver(NodeArgs, MaxChained) : ChainNodes(list)

SpecNodes == Init /\ [][NextNodes]_vars

(***************************************************************************)
(* One MorphismPath and the calls on it.  The path given to extend is      *)
(* another MorphismPath: new(channel_id) followed by appends.              *)
(***************************************************************************)
StepDurations == {1, 2}

AlignTargets == {0, 2, 3, 5}

RECURSIVE PathOf(_, _)
PathOf(channel_id, durs) ==
    IF durs = <<>> THEN MorphismPathNew(channel_id)
    ELSE path_append(PathOf(channel_id, SubSeq(durs, 1, Len(durs) - 1)),
                     durs[Len(durs)], 1, <<7>>)

OtherPaths ==
    {PathOf(ch, durs) : ch \in ChannelIds, durs \in ListsOver(StepDurations, MaxOther)}

InitPath ==
    /\ nodes = <<>>
    /\ result = Ret("new", <<>>, "ok", <<>>)
    /\ merge_a = <<>>
    /\ merge_b = <<>>
    /\ merge_out = NoMerge
    /\ incremental = None
    /\ program = ProgramArenaNew
    /\ \/ \E channel_id \in ChannelIds :
             morphism_path = MorphismPathNew(channel_id)
       \/ \E channel_id \in ChannelIds, dur \in {0} \cup StepDurations :
             morphism_path = path_identity(channel_id, dur, 0)

PathAppend(dur, opcode, payload) ==
    /\ Len(morphism_path.steps) < MaxSteps
    /\ morphism_path' = path_append(morphism_path, dur, opcode, payload)
    /\ result' = Ret("append", <<dur, opcode, payload>>, "ok", <<>>)
    /\ UNCHANGED <<nodes, merge_a, merge_b, merge_out, incremental, program>>

PathExtend(other) ==
    /\ Len(morphism_path.steps) + Len(other.steps) <= MaxSteps
    /\ LET r == path_extend(morphism_path, other)
       IN  /\ morphism_path' = r.path
           /\ result' = Ret("extend", <<other>>, r.status, r.value)
    /\ UNCHANGED <<nodes, merge_a, merge_b, merge_out, incremental, program>>

\* the guard keeps the path within MaxSteps: the call appends at most one
\* step, and none when the path already reaches the target
PathAlign(target_duration, opcode) ==
    /\ \/ Len(morphism_path.steps) < MaxSteps
       \/ morphism_path.total_duration >= target_duration
    /\ morphism_path' = path_align(morphism_path, target_duration, opcode)
    /\ result' = Ret("align", <<target_duration, opcode>>, "ok", <<>>)
    /\ UNCHANGED <<nodes, merge_a, merge_b, merge_out, incremental, program>>

NextPath ==
    \/ \E dur \in StepDurations : PathAppend(dur, 1, <<7>>)
    \/ \E other \in OtherPaths : PathExtend(other)
    \/ \E target_duration \in AlignTargets : PathAlign(target_duration, 0)

SpecPath == InitPath /\ [][NextPath]_vars

(***************************************************************************)
(* merge_sorted_events as a pure function: the two arguments are drawn     *)
(* from the time-sorted event lists of bounded length, then the function   *)
(* is applied once.                                                        *)
(***************************************************************************)
MergeEvents ==
    {FlatEvent(t, ch, 1, <<7>>) : t \in MergeTimes, ch \in ChannelIds}

IsTimeSorted(s) == \A i \in 1..(Len(s) - 1) : s[i].time <= s[i + 1].time

SortedEventLists ==
    {s \in UNION {[1..n -> MergeEvents] : n \in 0..MaxMergeLen} : IsTimeSorted(s)}

InitMerge ==
    /\ nodes = <<>>
    /\ result = Ret("new", <<>>, "ok", <<>>)
    /\ merge_a \in SortedEventLists
    /\ merge_b \in SortedEventLists
    /\ merge_out = NoMerge
    /\ incremental = None
    /\ program = ProgramArenaNew
    /\ morphism_path = MorphismPathNew(0)

Merge ==
    /\ ~merge_out.called
    /\ merge_out' = [called |-> TRUE, events |-> merge_sorted_events(merge_a, merge_b)]
    /\ UNCHANGED <<nodes, result, merge_a, merge_b, incremental, program, morphism_path>>

NextMerge == Merge

SpecMerge == InitMerge /\ [][NextMerge]_vars

(***************************************************************************)
(* Vocabulary of the properties                                            *)
(***************************************************************************)
NodeIds == 0..(Len(nodes) - 1)

Compiled == result.call \in {"compile", "inc_compile"} /\ result.status = "ok"

FlatCompiled == result.call = "compile" /\ result.status = "ok"

IncCompiled == result.call = "inc_compile" /\ result.status = "ok"

CompiledRoot == result.args[1]

\* the channel ids of the Atomic leaves below a node
RECURSIVE LeafChannels(_, _)
LeafChannels(arena, id) ==
    LET node == get(arena, id)
    IN  IF node.kind = "Atomic" THEN {node.channel_id}
        ELSE LeafChannels(arena, node.lhs) \cup LeafChannels(arena, node.rhs)

\* the durations of the Atomic leaves below a node
RECURSIVE LeafDurations(_, _)
LeafDurations(arena, id) ==
    LET node == get(arena, id)
    IN  IF node.kind = "Atomic" THEN {node.duration}
        ELSE LeafDurations(arena, node.lhs) \cup LeafDurations(arena, node.rhs)

\* the Atomic handles below a node
RECURSIVE LeafIds(_, _)
LeafIds(arena, id) ==
    LET node == get(arena, id)
    IN  IF node.kind = "Atomic" THEN {id}
        ELSE LeafIds(arena, node.lhs) \cup LeafIds(arena, node.rhs)

StrictlyAscending(s) == \A i \in 1..(Len(s) - 1) : s[i] < s[i + 1]

\* the root-to-leaf paths below a node: sequences of "lhs" / "rhs" turns
RECURSIVE Paths(_, _)
Paths(arena, id) ==
    LET node == get(arena, id)
    IN  IF node.kind = "Atomic" THEN {<<>>}
        ELSE {<<"lhs">> \o q : q \in Paths(arena, node.lhs)}
             \cup {<<"rhs">> \o q : q \in Paths(arena, node.rhs)}

\* the leaf a path ends in
RECURSIVE PathLeaf(_, _, _)
PathLeaf(arena, id, path) ==
    IF path = <<>> THEN id
    ELSE PathLeaf(arena, get(arena, id)[Head(path)], Tail(path))

\* sum of duration(lhs) over the Sequential ancestors left by an rhs turn
RECURSIVE PathTime(_, _, _)
PathTime(arena, id, path) ==
    IF path = <<>> THEN 0
    ELSE LET node == get(arena, id)
             here == IF node.kind = "Sequential" /\ Head(path) = "rhs"
                     THEN duration(get(arena, node.lhs)) ELSE 0
         IN  here + PathTime(arena, node[Head(path)], Tail(path))

PathEvent(arena, root, path) ==
    LET leaf == get(arena, PathLeaf(arena, root, path))
    IN  FlatEvent(PathTime(arena, root, path), leaf.channel_id,
                  leaf.payload.opcode, leaf.payload.data)

\* how many paths of the root yield the event e
PathEventCount(arena, root, e) ==
    Cardinality({q \in Paths(arena, root) : PathEvent(arena, root, q) = e})

Occurrences(s, e) == Cardinality({i \in 1..Len(s) : s[i] = e})

\* the root-to-leaf paths below a node in depth-first order, the lhs subtree
\* before the rhs subtree
RECURSIVE DfsPaths(_, _)
DfsPaths(arena, id) ==
    LET node == get(arena, id)
    IN  IF node.kind = "Atomic" THEN << <<>> >>
        ELSE LET l == DfsPaths(arena, node.lhs)
                 r == DfsPaths(arena, node.rhs)
             IN  [k \in 1..Len(l) |-> <<"lhs">> \o l[k]]
                 \o [k \in 1..Len(r) |-> <<"rhs">> \o r[k]]

\* the events of the paths ps (kept in their order) whose time is t
RECURSIVE EventsAt(_, _, _, _)
EventsAt(arena, root, ps, t) ==
    IF ps = <<>> THEN <<>>
    ELSE (IF PathTime(arena, root, Head(ps)) = t
          THEN <<PathEvent(arena, root, Head(ps))>> ELSE <<>>)
         \o EventsAt(arena, root, Tail(ps), t)

\* time t, then t + 1, ... up to last: at each time the events in
\* depth-first order
RECURSIVE TraversalOrderFrom(_, _, _, _)
TraversalOrderFrom(arena, root, t, last) ==
    IF t > last THEN <<>>
    ELSE EventsAt(arena, root, DfsPaths(arena, root), t)
         \o TraversalOrderFrom(arena, root, t + 1, last)

(***************************************************************************)
(* C1: for every root, the incremental compiler returns the same event     *)
(* sequence as the flat compiler (same length, same event at each          *)
(* position).  Stated as claimed; the code violates it.                    *)
(***************************************************************************)
C1_IncrementalEqualsFlat ==
    IncCompiled => result.value = compile(nodes, CompiledRoot)

(***************************************************************************)
(* C2: merge_sorted_events is the stable merge on every path: its result   *)
(* is element-wise what the two-pointer loop alone produces, so at equal   *)
(* times the event of A comes first.  Stated as claimed; the code violates *)
(* it on the B-then-A block copy.                                          *)
(***************************************************************************)
C2_MergeIsStableOnEveryPath ==
    merge_out.called =>
        merge_out.events = merge_loop(merge_a, merge_b, 0, 0, <<>>)

C4_ConflictLeavesArenaUnchanged ==
    /\ \A a \in NodeIds, b \in NodeIds :
          (Range(channels(get(nodes, a))) \cap Range(channels(get(nodes, b))) # {})
          => LET r == parallel(nodes, a, b)
             IN  /\ r.status = "err"
                 /\ "disjoint" \in Range(r.value)
                 /\ r.nodes = nodes
    /\ (result.call = "parallel" /\ result.status = "err")
          => "disjoint" \in Range(result.value)

C4_Witness ==
    /\ result.call = "parallel"
    /\ result.status = "err"
    /\ "disjoint" \in Range(result.value)
    /\ \E id \in NodeIds : Len(channels(get(nodes, id))) = 2

(***************************************************************************)
(* C5: every Sequential node has duration(lhs) + duration(rhs), every      *)
(* Parallel node has max(duration(lhs), duration(rhs)).                    *)
(***************************************************************************)
C5_DurationAlgebra ==
    \A id \in NodeIds :
        LET node == get(nodes, id)
        IN  /\ node.kind = "Sequential" =>
                node.duration = get(nodes, node.lhs).duration
                                + get(nodes, node.rhs).duration
            /\ node.kind = "Parallel" =>
                /\ node.duration >= get(nodes, node.lhs).duration
                /\ node.duration >= get(nodes, node.rhs).duration
                /\ node.duration \in {get(nodes, node.lhs).duration,
                                      get(nodes, node.rhs).duration}

C5_Witness ==
    \E id \in NodeIds :
        /\ get(nodes, id).kind = "Sequential"
        /\ get(nodes, get(nodes, id).lhs).kind = "Sequential"
        /\ get(nodes, get(nodes, id).lhs).duration > 0
        /\ get(nodes, get(nodes, id).rhs).duration > 0

(***************************************************************************)
(* C6: the channel list of every node is strictly ascending and is the set *)
(* of channel ids of the Atomic leaves below it, Parallel nodes included.  *)
(***************************************************************************)
C6_ChannelListIsLeafSet ==
    \A id \in NodeIds :
        /\ StrictlyAscending(channels(get(nodes, id)))
        /\ Range(channels(get(nodes, id))) = LeafChannels(nodes, id)

C6_Witness ==
    \E id \in NodeIds :
        /\ get(nodes, id).kind = "Parallel"
        /\ Len(get(nodes, id).channels) = 2
        /\ channels(get(nodes, get(nodes, id).lhs))[1]
              > channels(get(nodes, get(nodes, id).rhs))[1]

(***************************************************************************)
(* C7: the children of every Parallel node in the arena have disjoint      *)
(* channel lists.                                                          *)
(***************************************************************************)
C7_ParallelChildrenDisjoint ==
    \A id \in NodeIds :
        get(nodes, id).kind = "Parallel" =>
            LeafChannels(nodes, get(nodes, id).lhs)
                \cap LeafChannels(nodes, get(nodes, id).rhs) = {}

C7_Witness ==
    /\ result.call = "parallel"
    /\ result.status = "ok"
    /\ get(nodes, result.value).kind = "Parallel"
    /\ get(nodes, get(nodes, result.value).lhs).channel_id
          # get(nodes, get(nodes, result.value).rhs).channel_id

(***************************************************************************)
(* C8: the number of events returned by either compiler is                 *)
(* leaf_count(root); a leaf reached through several paths is counted and   *)
(* emitted once per path.                                                  *)
(***************************************************************************)
C8_EventCountIsLeafCount ==
    Compiled =>
        /\ Len(result.value) = leaf_count(nodes, CompiledRoot)
        /\ Len(result.value) = Cardinality(Paths(nodes, CompiledRoot))

C8_Witness ==
    /\ IncCompiled
    /\ Len(result.value) > Cardinality(LeafIds(nodes, CompiledRoot))

(***************************************************************************)
(* C9: the event list returned by either compiler is non-decreasing in     *)
(* time, including the incremental Sequential case that concatenates       *)
(* without sorting.                                                        *)
(***************************************************************************)
C9_OutputSortedByTime ==
    Compiled => IsTimeSorted(result.value)

C9_Witness ==
    /\ IncCompiled
    /\ get(nodes, CompiledRoot).kind = "Sequential"
    /\ get(nodes, get(nodes, CompiledRoot).rhs).kind # "Atomic"
    /\ result.value[Len(result.value)].time > result.value[1].time

(***************************************************************************)
(* C10: in the flat compiler's output each leaf occurrence (root-to-leaf   *)
(* path) has one event, at the sum of duration(lhs) over the Sequential    *)
(* ancestors in whose rhs subtree it lies; Parallel ancestors add 0.       *)
(***************************************************************************)
C10_EventTimeIsPathSum ==
    FlatCompiled =>
        /\ \A i \in 1..Len(result.value) :
              Occurrences(result.value, result.value[i])
                  = PathEventCount(nodes, CompiledRoot, result.value[i])
        /\ \A q \in Paths(nodes, CompiledRoot) :
              Occurrences(result.value, PathEvent(nodes, CompiledRoot, q)) > 0

C10_Witness ==
    /\ FlatCompiled
    /\ get(nodes, CompiledRoot).kind = "Sequential"
    /\ get(nodes, get(nodes, CompiledRoot).rhs).kind = "Sequential"
    /\ \E i \in 1..Len(result.value) : result.value[i].time > 1

(***************************************************************************)
(* C11: the flat compiler's output lists the events by time and, at equal  *)
(* times, in depth-first left-before-right order of the root-to-leaf paths *)
(* (lhs leaves before rhs leaves at every Sequential and Parallel node);   *)
(* it is that one sequence, a function of the arena and the root.          *)
(***************************************************************************)
C11_TiesInTraversalOrder ==
    FlatCompiled =>
        result.value = TraversalOrderFrom(nodes, CompiledRoot, 0,
                                          duration(get(nodes, CompiledRoot)))

C11_Witness ==
    /\ FlatCompiled
    /\ get(nodes, CompiledRoot).kind = "Parallel"
    /\ Len(result.value) = 2
    /\ result.value[1].time = result.value[2].time
    /\ result.value[1].channel_id > result.value[2].channel_id

(***************************************************************************)
(* Vocabulary of the properties of the compiler context                    *)
(***************************************************************************)
CompileCalls == {"compile_graph", "Node.compile"}

ZeroStats == Some(<<0, 0, 0, <<0, 1>>>>)

\* the events of a node in its local time, by structural recursion with no
\* cache
RECURSIVE LocalEvents(_, _)
LocalEvents(arena, id) ==
    LET node == get(arena, id)
    IN  CASE node.kind = "Atomic" ->
               <<FlatEvent(0, node.channel_id, node.payload.opcode,
                           node.payload.data)>>
          [] node.kind = "Sequential" ->
               LocalEvents(arena, node.lhs)
               \o shift_events(LocalEvents(arena, node.rhs),
                               duration(get(arena, node.lhs)))
          [] node.kind = "Parallel" ->
               merge_sorted_events(LocalEvents(arena, node.lhs),
                                   LocalEvents(arena, node.rhs))

(***************************************************************************)
(* C12: enable_incremental on a context whose incremental compiler is      *)
(* already enabled changes nothing: the cached entries and the hit and     *)
(* miss counters after the call are those before it.  Stated as claimed;   *)
(* the code replaces the compiler by a new one.                            *)
(***************************************************************************)
C12_EnableWhenEnabledIsNoOp ==
    incremental.is_some =>
        /\ enable_incremental(incremental).value.cache = incremental.value.cache
        /\ get_incremental_stats(enable_incremental(incremental))
              = get_incremental_stats(incremental)

(***************************************************************************)
(* C13: disable_incremental leads to Disabled from any state, and an       *)
(* enable from Disabled starts with zero cached nodes, hits and misses;    *)
(* clear_incremental_cache leaves an Enabled context Enabled with zero     *)
(* cached nodes, hits and misses, and changes nothing in a Disabled one.   *)
(***************************************************************************)
C13_DisableAndClear ==
    /\ ~disable_incremental(incremental).is_some
    /\ LET again == enable_incremental(disable_incremental(incremental))
       IN  /\ again.is_some
           /\ DOMAIN again.value.cache = {}
           /\ get_incremental_stats(again) = ZeroStats
    /\ LET cleared == clear_incremental_cache(incremental)
       IN  IF incremental.is_some
           THEN /\ cleared.is_some
                /\ DOMAIN cleared.value.cache = {}
                /\ get_incremental_stats(cleared) = ZeroStats
           ELSE ~cleared.is_some
    /\ result.call = "disable_incremental" => ~incremental.is_some
    /\ (result.call = "clear_incremental_cache" /\ incremental.is_some)
          => get_incremental_stats(incremental) = ZeroStats

C13_Witness ==
    /\ incremental.is_some
    /\ incremental.value.cache_hits > 0
    /\ incremental.value.cache_misses > 0
    /\ Cardinality(DOMAIN incremental.value.cache) = MaxNodes
    /\ result.call \in CompileCalls

(***************************************************************************)
(* C14: while the incremental compiler is Disabled, compile_graph and      *)
(* Node.compile return the flat compiler's output for the node (its events *)
(* by time and, within a time, in depth-first order) and leave the context *)
(* Disabled: no compiler is created and get_incremental_stats still        *)
(* returns nothing.                                                        *)
(***************************************************************************)
C14_DisabledCompileIsFlat ==
    ~incremental.is_some =>
        /\ \A id \in NodeIds :
              LET flat == event_tuples(
                              TraversalOrderFrom(nodes, id, 0,
                                                 duration(get(nodes, id))))
                  g == compile_graph(incremental, nodes, id)
                  n == node_compile(incremental, nodes, id)
              IN  /\ g.value = flat
                  /\ n.value = flat
                  /\ ~g.incremental.is_some
                  /\ ~n.incremental.is_some
                  /\ ~get_incremental_stats(g.incremental).is_some
                  /\ ~get_incremental_stats(n.incremental).is_some
        /\ result.call \in CompileCalls
              => result.value = event_tuples(compile(nodes, result.args[1]))

C14_Witness ==
    /\ result.call \in CompileCalls
    /\ ~incremental.is_some
    /\ get(nodes, result.args[1]).kind = "Parallel"
    /\ Len(result.value) = 2

C16_OutputIndependentOfCache ==
    (incremental.is_some /\ result.call \in CompileCalls)
        => /\ result.value =
                 event_tuples(inc_compile(IncrementalCompilerNew, nodes,
                                          result.args[1]).events)
           /\ result.value = event_tuples(LocalEvents(nodes, result.args[1]))
           /\ \A id \in DOMAIN incremental.value.cache :
                 incremental.value.cache[id] = LocalEvents(nodes, id)

C16_Witness ==
    /\ result.call \in CompileCalls
    /\ incremental.is_some
    /\ LET root == get(nodes, result.args[1])
       IN  /\ root.kind = "Sequential"
           /\ get(nodes, root.rhs).kind = "Sequential"
           /\ duration(get(nodes, root.lhs)) > 0
           /\ incremental.value.cache_hits
                 > inc_compile(IncrementalCompilerNew, nodes,
                               result.args[1]).inc.cache_hits

(***************************************************************************)
(* C17: a variable call for a name the arena already knows returns the     *)
(* handle the name is bound to and changes nothing (no value is added,     *)
(* value_count and var_count stay, the stored type hint stays); a call for *)
(* a new name stores the hint parsed from its own type hint string under a *)
(* handle no other name has; and no call changes a value or a binding that *)
(* exists, so the hint stored by the first call for a name stays.          *)
(***************************************************************************)
C17_VariableIsIdempotent ==
    [][/\ \A i \in 1..Len(program.values) :
            /\ i <= Len(program'.values)
            /\ program'.values[i] = program.values[i]
       /\ \A n \in DOMAIN program.var_names :
            /\ n \in DOMAIN program'.var_names
            /\ program'.var_names[n] = program.var_names[n]
       /\ \A n \in DOMAIN program'.var_names, m \in DOMAIN program'.var_names :
            n # m => program'.var_names[n] # program'.var_names[m]
       /\ result'.call = "variable" =>
            LET name == result'.args[1]
                h == result'.args[2]
            IN  IF name \in DOMAIN program.var_names
                THEN /\ result'.value = program.var_names[name]
                     /\ program' = program
                     /\ value_count(program') = value_count(program)
                     /\ var_count(program') = var_count(program)
                ELSE /\ value_count(program') = value_count(program) + 1
                     /\ var_count(program') = var_count(program) + 1
                     /\ program'.var_names[name] = result'.value
                     /\ program'.values[result'.value + 1]
                          = ValueData_Variable(
                                name,
                                CASE h = "int32" -> "Int32"
                                  [] h = "i64" -> "Int64"
                                  [] h = "bool" -> "Bool"
                                  [] h = "unknown" -> "Int32")
      ]_vars

\* "x" was declared bool, a literal and "y" followed, and a later call for
\* "x" with another hint has just returned
C17_Witness ==
    /\ result.call = "variable"
    /\ result.args = <<"x", "i64">>
    /\ result.value = 0
    /\ program.values[1] = ValueData_Variable("x", "Bool")
    /\ value_count(program) = 3
    /\ var_count(program) = 2

(***************************************************************************)
(* C18: the tree a balanced builder returns for a list of N >= 1 leaf      *)
(* handles has depth at most ceil(log2 N) + 1, a single leaf having depth  *)
(* 1: chain_sequence on the program arena for a list of nodes that are not *)
(* Chain nodes, compose_sequence on the morphism arena for a list of       *)
(* Atomic nodes.                                                           *)
(***************************************************************************)
CeilLog2(n) == CHOOSE k \in 0..n : 2^k >= n /\ \A j \in 0..(k - 1) : 2^j < n

RECURSIVE ChainDepth(_, _)
ChainDepth(a, id) ==
    LET node == a.nodes[id + 1]
    IN  IF node.kind = "Chain"
        THEN 1 + Max(ChainDepth(a, node.left), ChainDepth(a, node.right))
        ELSE 1

C18_BalancedDepth ==
    /\ (/\ result.call = "chain_sequence"
        /\ result.value.is_some
        /\ \A i \in 1..Len(result.args[1]) :
              program.nodes[result.args[1][i] + 1].kind # "Chain")
          => ChainDepth(program, result.value.value)
                <= CeilLog2(Len(result.args[1])) + 1
    /\ (/\ result.call = "compose_sequence"
        /\ result.value.is_some
        /\ \A i \in 1..Len(result.args[1]) :
              get(nodes, result.args[1][i]).kind = "Atomic")
          => max_depth(nodes, result.value.value)
                <= CeilLog2(Len(result.args[1])) + 1

\* five leaves: three rounds, the fifth leaf carried twice
C18_Witness ==
    /\ result.call = "chain_sequence"
    /\ Len(result.args[1]) = 5
    /\ \A i \in 1..5 : program.nodes[result.args[1][i] + 1].kind = "Identity"
    /\ result.value.is_some
    /\ ChainDepth(program, result.value.value) = 4

(***************************************************************************)
(* C19, as claimed: chain_sequence returns nothing for an empty list and   *)
(* the element itself for a one-element list, adding no node; for N >= 2   *)
(* elements it appends exactly N - 1 Chain nodes and the left-to-right     *)
(* sequence of the non-Chain leaves under the returned root is the input   *)
(* list.                                                                   *)
(***************************************************************************)
RECURSIVE NonChainLeaves(_, _)
NonChainLeaves(a, id) ==
    LET node == a.nodes[id + 1]
    IN  IF node.kind = "Chain"
        THEN NonChainLeaves(a, node.left) \o NonChainLeaves(a, node.right)
        ELSE <<id>>

\* the nodes under id, left to right, that the arena held before it had
\* base nodes
RECURSIVE LeavesBelow(_, _, _)
LeavesBelow(a, id, base) ==
    IF id < base THEN <<id>>
    ELSE LET node == a.nodes[id + 1]
         IN  LeavesBelow(a, node.left, base) \o LeavesBelow(a, node.right, base)

\* what a chain_sequence step does to the arena, apart from the leaves
ChainSequenceAppends(list) ==
    /\ program'.values = program.values
    /\ program'.var_names = program.var_names
    /\ SubSeq(program'.nodes, 1, node_count(program)) = program.nodes
    /\ Len(list) = 0 => (~result'.value.is_some /\ program' = program)
    /\ Len(list) = 1 => (result'.value = Some(list[1]) /\ program' = program)
    /\ Len(list) >= 2 =>
          /\ result'.value.is_some
          /\ node_count(program') = node_count(program) + Len(list) - 1
          /\ \A i \in (node_count(program) + 1)..node_count(program') :
                program'.nodes[i].kind = "Chain"

C19_ChainSequenceLeaves ==
    [][result'.call = "chain_sequence" =>
          /\ ChainSequenceAppends(result'.args[1])
          /\ Len(result'.args[1]) >= 2 =>
                NonChainLeaves(program', result'.value.value) = result'.args[1]
      ]_<<program, result.call, result.args>>

(***************************************************************************)
(* C19, amended: as above, but for N >= 2 the input list is the left-to-   *)
(* right sequence of the nodes under the returned root that were in the    *)
(* arena before the call, that is, the leaves of the tree of appended      *)
(* Chain nodes; it is the sequence of non-Chain leaves when no element of  *)
(* the list is a Chain node.                                               *)
(***************************************************************************)
C19_ChainSequenceInputs ==
    [][result'.call = "chain_sequence" =>
          /\ ChainSequenceAppends(result'.args[1])
          /\ Len(result'.args[1]) >= 2 =>
                /\ result'.value.value = node_count(program') - 1
                /\ LeavesBelow(program', result'.value.value,
                               node_count(program)) = result'.args[1]
                /\ (\A i \in 1..Len(result'.args[1]) :
                       program.nodes[result'.args[1][i] + 1].kind # "Chain")
                     => NonChainLeaves(program', result'.value.value)
                          = result'.args[1]
      ]_<<program, result.call, result.args>>

\* a list of three with a Chain node in it has been chained
C19_Witness ==
    /\ result.call = "chain_sequence"
    /\ Len(result.args[1]) = 3
    /\ \E i \in 1..3 : program.nodes[result.args[1][i] + 1].kind = "Chain"
    /\ \E i \in 1..3 : program.nodes[result.args[1][i] + 1].kind = "Identity"
    /\ result.value.is_some
    /\ node_count(program) = MaxLeaves + 2

(***************************************************************************)
(* C20: extend with a path of another channel returns an error and leaves  *)
(* the path as it was (same steps, same total_duration), also when the     *)
(* other path is empty; extend with a path of the same channel appends the *)
(* other path's steps in order after the path's own and adds the other     *)
(* path's total_duration.                                                  *)
(***************************************************************************)
C20_ExtendChecksChannel ==
    [][result'.call = "extend" =>
          LET other == result'.args[1]
              n == Len(morphism_path.steps)
          IN  /\ morphism_path'.channel_id = morphism_path.channel_id
              /\ IF other.channel_id # morphism_path.channel_id
                 THEN /\ result'.status = "err"
                      /\ morphism_path'.steps = morphism_path.steps
                      /\ morphism_path'.total_duration
                           = morphism_path.total_duration
                 ELSE /\ result'.status = "ok"
                      /\ Len(morphism_path'.steps) = n + Len(other.steps)
                      /\ \A i \in 1..n :
                            morphism_path'.steps[i] = morphism_path.steps[i]
                      /\ \A j \in 1..Len(other.steps) :
                            morphism_path'.steps[n + j] = other.steps[j]
                      /\ morphism_path'.total_duration
                           = morphism_path.total_duration + other.total_duration
      ]_<<morphism_path, result.call, result.args>>

\* a path with steps has just refused a path of the other channel
C20_Witness ==
    /\ result.call = "extend"
    /\ result.status = "err"
    /\ result.args[1].channel_id # morphism_path.channel_id
    /\ Len(result.args[1].steps) = MaxOther
    /\ Len(morphism_path.steps) = 1
    /\ morphism_path.total_duration = 2

(***************************************************************************)
(* C21: align changes nothing when total_duration >= target; otherwise it  *)
(* appends exactly one step, of duration target - total_duration, and      *)
(* total_duration becomes target.  So the total after align is the larger  *)
(* of the old total and the target, the appended step never has duration   *)
(* 0, and a second align with the same arguments changes nothing.          *)
(***************************************************************************)
C21_AlignPadsToTarget ==
    [][result'.call = "align" =>
          LET target == result'.args[1]
              opcode == result'.args[2]
              n == Len(morphism_path.steps)
          IN  /\ morphism_path'.channel_id = morphism_path.channel_id
              /\ IF morphism_path.total_duration >= target
                 THEN morphism_path' = morphism_path
                 ELSE /\ Len(morphism_path'.steps) = n + 1
                      /\ SubSeq(morphism_path'.steps, 1, n) = morphism_path.steps
                      /\ morphism_path'.steps[n + 1].duration
                           = target - morphism_path.total_duration
                      /\ morphism_path'.steps[n + 1].duration > 0
                      /\ morphism_path'.steps[n + 1].opcode = opcode
                      /\ morphism_path'.total_duration = target
              /\ morphism_path'.total_duration
                   = Max(morphism_path.total_duration, target)
              /\ path_align(morphism_path', target, opcode) = morphism_path'
      ]_<<morphism_path, result.call, result.args>>

\* a path of total 3 has been aligned to 5
C21_Witness ==
    /\ result.call = "align"
    /\ result.args[1] = 5
    /\ Len(morphism_path.steps) = 3
    /\ morphism_path.steps[3].duration = 2
    /\ morphism_path.steps[3].payload = <<>>
    /\ morphism_path.total_duration = 5

(***************************************************************************)
(* C29: on a path made by new or identity and changed by append, extend    *)
(* (refused or not) and align, total_duration is the sum of the durations  *)
(* of the steps in every state, and no call lowers the number of steps or  *)
(* total_duration.                                                         *)
(***************************************************************************)
RECURSIVE SumOfDurations(_)
SumOfDurations(steps) ==
    IF steps = <<>> THEN 0
    ELSE steps[1].duration + SumOfDurations(Tail(steps))

C29_TotalIsSumOfSteps ==
    /\ [](morphism_path.total_duration = SumOfDurations(morphism_path.steps))
    /\ [][/\ Len(morphism_path'.steps) >= Len(morphism_path.steps)
          /\ morphism_path'.total_duration >= morphism_path.total_duration
         ]_<<morphism_path, result.call, result.args>>

\* an identity path that was extended and then aligned
C29_Witness ==
    /\ result.call = "align"
    /\ Len(morphism_path.steps) = 3
    /\ morphism_path.steps[1].payload = <<>>
    /\ morphism_path.steps[2].payload = <<7>>
    /\ morphism_path.steps[3].payload = <<>>
    /\ morphism_path.total_duration = 5
    /\ SumOfDurations(morphism_path.steps) = 5

(***************************************************************************)
(* C22: compile_by_board(root) partitions compile(root): the buckets are   *)
(* keyed by the boards (channel_id >> 16) of the events, none is empty,    *)
(* the bucket of a board is the subsequence of compile(root) made of the   *)
(* events of that board, so every event is in exactly one bucket, and each *)
(* bucket is non-decreasing in time.                                       *)
(***************************************************************************)
EventsOfBoard(events, b) ==
    LET OnBoard(e) == e.channel_id \div 65536 = b
    IN  SelectSeq(events, OnBoard)

RECURSIVE SumOfLengths(_, _)
SumOfLengths(grouped, boards) ==
    IF boards = {} THEN 0
    ELSE LET b == CHOOSE x \in boards : TRUE
         IN  Len(grouped[b]) + SumOfLengths(grouped, boards \ {b})

C22_BoardsPartitionEvents ==
    (result.call = "compile_by_board" /\ result.status = "ok") =>
        LET events == compile(nodes, result.args[1])
            grouped == result.value
        IN  /\ DOMAIN grouped
                 = {events[i].channel_id \div 65536 : i \in 1..Len(events)}
            /\ \A b \in DOMAIN grouped :
                  /\ grouped[b] # <<>>
                  /\ grouped[b] = EventsOfBoard(events, b)
                  /\ \A i \in 1..(Len(grouped[b]) - 1) :
                        grouped[b][i].time <= grouped[b][i + 1].time
            /\ SumOfLengths(grouped, DOMAIN grouped) = Len(events)

\* two boards, and on board 0 two events at different times
C22_Witness ==
    /\ result.call = "compile_by_board"
    /\ result.status = "ok"
    /\ DOMAIN result.value = {0, 1}
    /\ Len(result.value[0]) = 2
    /\ result.value[0][1].time < result.value[0][2].time
    /\ Len(result.value[1]) = 1

(***************************************************************************)
(* C23: after any sequence of node constructor calls on a program arena,   *)
(* with any arguments, every child node handle stored in a node (Chain     *)
(* left and right, Loop body, Match case targets and default, Apply func,  *)
(* FuncDef body) is the handle of a node created before the node holding   *)
(* it.  Stated as claimed; the constructors store the handles they are     *)
(* given.                                                                  *)
(***************************************************************************)
ChildHandles(node) ==
    CASE node.kind = "Chain" -> {node.left, node.right}
      [] node.kind = "Loop" -> {node.body}
      [] node.kind = "Match" ->
            {node.cases[k] : k \in DOMAIN node.cases}
               \cup (IF node.default.is_some THEN {node.default.value} ELSE {})
      [] node.kind = "Apply" -> {node.func}
      [] node.kind = "FuncDef" -> {node.body}
      [] OTHER -> {}

C23_ProgramNodesFormDag ==
    \A i \in 1..node_count(program) :
        \A child \in ChildHandles(program.nodes[i]) : child < i - 1

(***************************************************************************)
(* C24: a successful atomic, sequential or parallel call returns the node  *)
(* count before the call and appends one node, so handles are dense and    *)
(* increasing; a call that fails (a handle that is not below the node      *)
(* count, or a channel conflict) appends nothing; and the lhs and rhs of   *)
(* every Sequential or Parallel node are below the node's own handle, so   *)
(* a successful call was given handles below the node count and no cycle   *)
(* exists.                                                                 *)
(***************************************************************************)
Constructors == {"atomic", "sequential", "parallel"}

C24_HandlesDenseAndChildrenEarlier ==
    [][/\ (result'.call \in Constructors /\ result'.status = "ok") =>
             /\ result'.value = Len(nodes)
             /\ Len(nodes') = Len(nodes) + 1
       /\ (result'.call \in Constructors /\ result'.status # "ok") =>
             nodes' = nodes
       /\ \A i \in 1..Len(nodes') :
             nodes'[i].kind \in {"Sequential", "Parallel"} =>
                /\ nodes'[i].lhs \in 0..(i - 2)
                /\ nodes'[i].rhs \in 0..(i - 2)
      ]_<<nodes, result.call, result.status>>

\* the third node is a Parallel of the first two, just built
C24_Witness ==
    /\ result.call = "parallel"
    /\ result.status = "ok"
    /\ result.value = 2
    /\ Len(nodes) = 3
    /\ nodes[3].kind = "Parallel"
    /\ nodes[3].lhs = 1
    /\ nodes[3].rhs = 0

(***************************************************************************)
(* C25: the arena is append-only.  No call but clear lowers the node count *)
(* or changes a stored node; the accessors, the walks and both compilers   *)
(* change nothing at all, a failed constructor call neither; clear removes *)
(* every node.                                                             *)
(***************************************************************************)
C25_ArenaIsAppendOnly ==
    [][IF result'.call = "clear"
       THEN nodes' = <<>>
       ELSE /\ Len(nodes') >= Len(nodes)
            /\ \A i \in 1..Len(nodes) : nodes'[i] = nodes[i]
            /\ (result'.call \notin Constructors \/ result'.status # "ok")
                  => nodes' = nodes
      ]_<<nodes, result.call, result.args, result.status>>

\* a full arena has just refused a parallel of overlapping channels
C25_Witness ==
    /\ result.call = "parallel"
    /\ result.status = "err"
    /\ Len(nodes) = MaxNodes
    /\ nodes[MaxNodes].kind = "Sequential"

(***************************************************************************)
(* C26: sequential is associative.  sequential(sequential(a, b), c) and    *)
(* sequential(a, sequential(b, c)) have the same duration and the same     *)
(* channel list, and compile returns the same events for both.             *)
(***************************************************************************)
C26_SequentialIsAssociative ==
    result.call = "sequential_both_ways" =>
        LET left  == result.value[1]
            right == result.value[2]
        IN  /\ duration(get(nodes, left)) = duration(get(nodes, right))
            /\ channels_vec(get(nodes, left)) = channels_vec(get(nodes, right))
            /\ compile(nodes, left) = compile(nodes, right)

\* a, b and c are three different nodes, one of them a parallel over both
\* channels, and b takes time
C26_Witness ==
    /\ result.call = "sequential_both_ways"
    /\ Cardinality({result.args[1], result.args[2], result.args[3]}) = 3
    /\ \E i \in 1..3 : get(nodes, result.args[i]).kind = "Parallel"
    /\ duration(get(nodes, result.args[2])) > 0
    /\ Len(compile(nodes, result.value[1])) = 4

(***************************************************************************)
(* C27: parallel is commutative over disjoint channels.  As stated:        *)
(* parallel(a, b) and parallel(b, a) both succeed, have the same duration  *)
(* and the same channel list, and compile returns the same event sequence  *)
(* for both.                                                               *)
(***************************************************************************)
DisjointArgs ==
    ~has_intersection(channels(get(nodes, result.args[1])),
                      channels(get(nodes, result.args[2])))

C27_ParallelIsCommutative ==
    (result.call = "parallel_both_ways" /\ DisjointArgs) =>
        /\ result.status = "ok"
        /\ LET ab == result.value[1]
               ba == result.value[2]
           IN  /\ duration(get(nodes, ab)) = duration(get(nodes, ba))
               /\ channels_vec(get(nodes, ab)) = channels_vec(get(nodes, ba))
               /\ compile(nodes, ab) = compile(nodes, ba)

OnChannel(events, ch) == SelectSeq(events, LAMBDA e : e.channel_id = ch)

TimesOf(events) == [i \in 1..Len(events) |-> events[i].time]

(***************************************************************************)
(* C27, amended: both calls succeed with the same duration and the same    *)
(* channel list, and the two compiled outputs hold the same events at the  *)
(* same times; they have the same sequence of times and, channel by        *)
(* channel, the same events in the same order, so they differ at most in   *)
(* the order of events of different channels that share a time.            *)
(***************************************************************************)
C27_ParallelCommutesUpToTies ==
    (result.call = "parallel_both_ways" /\ DisjointArgs) =>
        /\ result.status = "ok"
        /\ LET ab == result.value[1]
               ba == result.value[2]
           IN  /\ duration(get(nodes, ab)) = duration(get(nodes, ba))
               /\ channels_vec(get(nodes, ab)) = channels_vec(get(nodes, ba))
               /\ TimesOf(compile(nodes, ab)) = TimesOf(compile(nodes, ba))
               /\ \A ch \in ChannelIds :
                     OnChannel(compile(nodes, ab), ch)
                        = OnChannel(compile(nodes, ba), ch)

\* both orders were built, and their outputs differ in the order of a tie
C27_Witness ==
    /\ result.call = "parallel_both_ways"
    /\ result.status = "ok"
    /\ compile(nodes, result.value[1]) # compile(nodes, result.value[2])
    /\ duration(get(nodes, result.value[1])) > 0

(***************************************************************************)
(* C28: with clear among the calls, every cache entry whose handle names a *)
(* node is the event list of that node in the node's local time, and       *)
(* compile_graph on an Enabled context returns the events of the node the  *)
(* arena now holds at the handle.                                          *)
(***************************************************************************)
C28_CacheFollowsArena ==
    /\ incremental.is_some =>
          \A id \in DOMAIN incremental.value.cache :
             Valid(id) => incremental.value.cache[id] = LocalEvents(nodes, id)
    /\ (incremental.is_some /\ result.call = "compile_graph") =>
          result.value = event_tuples(compile(nodes, result.args[1]))

\* out interleaves a and b: it can be split into a and b, each in its order
RECURSIVE IsInterleaving(_, _, _)
IsInterleaving(out, a, b) ==
    IF out = <<>> THEN a = <<>> /\ b = <<>>
    ELSE \/ /\ a # <<>>
            /\ out[1] = a[1]
            /\ IsInterleaving(Tail(out), Tail(a), b)
         \/ /\ b # <<>>
            /\ out[1] = b[1]
            /\ IsInterleaving(Tail(out), a, Tail(b))

(***************************************************************************)
(* C30: for time-sorted A and B, merge_sorted_events(A, B) has length      *)
(* |A| + |B|, is non-decreasing in time, and is an interleaving of A and   *)
(* B: it holds exactly their events, those of A in the order of A and      *)
(* those of B in the order of B, on whichever path the call takes.         *)
(***************************************************************************)
C30_MergeInterleavesSorted ==
    merge_out.called =>
        /\ Len(merge_out.events) = Len(merge_a) + Len(merge_b)
        /\ IsTimeSorted(merge_out.events)
        /\ IsInterleaving(merge_out.events, merge_a, merge_b)

\* the two-pointer path was taken, on lists that overlap in time and share
\* a time, and the result is neither block copy
C30_Witness ==
    /\ merge_out.called
    /\ Len(merge_a) >= 2
    /\ Len(merge_b) >= 2
    /\ merge_a[Len(merge_a)].time > merge_b[1].time
    /\ merge_b[Len(merge_b)].time > merge_a[1].time
    /\ \E i \in 1..Len(merge_a), j \in 1..Len(merge_b) :
          merge_a[i].time = merge_b[j].time
    /\ merge_out.events # merge_a \o merge_b
    /\ merge_out.events # merge_b \o merge_a

====
